---- MODULE Spec2Model ----
(***************************************************************************)
(* A model of the core passes of the ACO shader compiler backend:          *)
(*   - nir_divergence_analysis   (src/compiler/nir/nir_divergence_analysis.c)*)
(*   - lower_bool_phis           (src/amd/compiler/aco_lower_bool_phis.cpp) *)
(*   - live_var_analysis         (aco_live_var_analysis, src/unnamed/part_000)*)
(*   - the spiller               (aco_spill, src/unnamed/part_001)          *)
(*   - register_allocation       (src/amd/compiler/aco_register_allocation.cpp)*)
(*   - emit_program              (aco_assembler, kept at the end of          *)
(*                                src/compiler/nir/nir_divergence_analysis.c)*)
(* Every pass owns the program exclusively while it runs, so every pass    *)
(* has its own variables, its own initial states and its own next-state    *)
(* relation; the variables of the passes that are not running stay idle.   *)
(* Blocks, SSA values and sequence positions are numbered from 1 here      *)
(* (the source numbers them from 0).                                       *)
(***************************************************************************)
EXTENDS Integers, Sequences, FiniteSets, TLC

VARIABLES
  \* ---- nir_divergence_analysis
  shader,      \* the nir_shader under analysis (fixed during the pass)
  divergent,   \* bool *t : ssa index -> divergent?
  worklist,    \* nir_block_worklist: blocks still to visit, head first
  dpc,         \* "idle" | "run" | "done" (t returned)
  refills      \* how often nir_block_worklist_add_all ran after a change

divVars == <<shader, divergent, worklist, dpc, refills>>

VARIABLES
  \* ---- live_var_analysis<true>
  lprog,            \* the Program: blocks, predecessor lists, temp classes
  live_out,         \* live.live_out: per block, the ids of the temps live at its exit
  lworklist,        \* std::set<unsigned> worklist
  register_demand,  \* live.register_demand: per block, per instruction, <<sgpr, vgpr>>
  block_demand,     \* per block <<block->sgpr_demand, block->vgpr_demand>>
  prog_demand,      \* <<sgpr_demand, vgpr_demand>> of live_var_analysis
  waves,            \* <<program->num_waves, program->max_sgpr, program->max_vgpr>>
  lpc               \* "idle" | "run" | "done"

liveVars == <<lprog, live_out, lworklist, register_demand, block_demand,
              prog_demand, waves, lpc>>

VARIABLES
  \* ---- lower_bool_phis
  bprog,     \* the Program being rewritten (blocks, allocationID)
  borig,     \* the Program as it was handed to the pass
  bblock,    \* the block iterator of lower_bool_phis
  bpc        \* "idle" | "run" | "done"

boolVars == <<bprog, borig, bblock, bpc>>

VARIABLES
  \* ---- spill
  sprog,     \* the Program: blocks, predecessor lists, allocationID
  sctx,      \* spill_ctx: interferences, affinities, spills_entry/exit, renames, next uses
  sblock,    \* the block index of the loop over spill_block in spill()
  sslots,    \* assign_spill_slots: the merged interferences, sgpr_slot, vgpr_slot
  spc        \* "idle" | "run" | "done"

spillVars == <<sprog, sctx, sblock, sslots, spc>>

VARIABLES
  \* ---- register_allocation
  rprog,     \* the Program being rewritten
  rctx,      \* ra_ctx, the register file and the renames of the blocks
  rblock,    \* the block iterator of register_allocation
  rpc        \* "idle" | "run" | "done"

raVars == <<rprog, rctx, rblock, rpc>>

VARIABLES
  \* ---- emit_program
  aprog,     \* the Program: the instructions of its blocks
  actx,      \* asm_context: branches and block_offset
  aout,      \* std::vector<uint32_t> out
  ablock,    \* the block iterator of the loop of emit_program
  apc        \* "idle" | "exports" | "emit" | "branches" | "done"

asmVars == <<aprog, actx, aout, ablock, apc>>

VARIABLES
  \* ---- _get_reg, called with moves
  greg_file,   \* reg_file: register -> id of the temp that holds it, 0 if free
  gassign,     \* assignments: id -> register and size of the temp
  gargs,       \* lb, ub, size, stride, num_moves of the call
  gres,        \* the pair returned, the parallelcopy pairs and the window taken
  gpc          \* "idle" | "call" | "done"

grVars == <<greg_file, gassign, gargs, gres, gpc>>

VARIABLES
  \* ---- compute_global_next_uses
  nprog,       \* the Program: blocks, predecessors, dominators, loop depths
  nstart,      \* ctx.next_use_distances_start
  nend,        \* ctx.next_use_distances_end
  nworklist,   \* std::set<uint32_t> worklist
  nsteps,      \* the number of blocks taken from the worklist so far
  npc          \* "idle" | "run" | "done"

nuVars == <<nprog, nstart, nend, nworklist, nsteps, npc>>

vars == <<divVars, liveVars, boolVars, spillVars, raVars, asmVars, grVars, nuVars>>

(***************************************************************************)
(*                       nir_divergence_analysis                           *)
(***************************************************************************)

\* ---- bounds of the shader families
\* the largest number of mu phis chained in the loop header
MaxLoopPhis == 2

\* ---- constructors of the IR
Src(s) == [ssa |-> s, comp |-> 0, n |-> 0, src_type |-> "other", pred |-> 0, dest |-> 0]
AluSrc(s, c, n) == [Src(s) EXCEPT !.comp = c, !.n = n]
TexSrc(s, ty) == [Src(s) EXCEPT !.src_type = ty]
PhiSrc(s, p) == [Src(s) EXCEPT !.pred = p]
CopyEntry(d, s) == [Src(s) EXCEPT !.dest = d]
Instr(ty, op, dest, nc, block, srcs) ==
  [type |-> ty, op |-> op, dest |-> dest, nc |-> nc, block |-> block, srcs |-> srcs]

RECURSIVE Flatten(_)
Flatten(ss) == IF ss = <<>> THEN <<>> ELSE Head(ss) \o Flatten(Tail(ss))

Range(f) == {f[i] : i \in DOMAIN f}

\* all instructions of the shader / the instruction that defines an ssa value
ShaderInstrs == Range(Flatten(shader.blocks))
ParentInstr(s) ==
  CHOOSE ins \in ShaderInstrs :
     \/ ins.type # "parallel_copy" /\ ins.dest = s
     \/ ins.type = "parallel_copy" /\ \E e \in Range(ins.srcs) : e.dest = s

\* nir_foreach_use: the instructions that read ssa value s
UsesOf(s) == {ins \in ShaderInstrs : \E u \in Range(ins.srcs) : u.ssa = s}

VecOps == {"vec2", "vec3", "vec4"}

alu_src_is_divergent(t, src, num_input_components) ==
  IF /\ num_input_components = 1
     /\ ParentInstr(src.ssa).nc # 1
     /\ ParentInstr(src.ssa).type = "alu"
     /\ ParentInstr(src.ssa).op \in VecOps
  THEN t[ParentInstr(src.ssa).srcs[src.comp].ssa]
  ELSE t[src.ssa]

visit_alu(t, instr) ==
  IF t[instr.dest] THEN [d |-> t, ch |-> FALSE]
  ELSE IF \E i \in DOMAIN instr.srcs :
            alu_src_is_divergent(t, instr.srcs[i], instr.srcs[i].n)
       THEN [d |-> [t EXCEPT ![instr.dest] = TRUE], ch |-> TRUE]
       ELSE [d |-> [t EXCEPT ![instr.dest] = FALSE], ch |-> FALSE]

UniformIntrinsics ==
  {"shader_clock", "ballot", "read_invocation", "read_first_invocation",
   "vote_any", "vote_all", "vote_feq", "vote_ieq", "reduce",
   "load_push_constant", "vulkan_resource_index"}

\* intrinsics without a destination (nir_intrinsic_infos[].has_dest == false)
NoDestIntrinsics == {"store_output", "discard"}

\* visit_intrinsic without the early return for a value already divergent
visit_intrinsic_noguard(t, instr) ==
  IF instr.op \in NoDestIntrinsics THEN [d |-> t, ch |-> FALSE]
  ELSE LET is_divergent ==
             IF instr.op \in UniformIntrinsics THEN FALSE
             ELSE IF instr.op = "load_ubo"
                  THEN \E i \in DOMAIN instr.srcs : t[instr.srcs[i].ssa]
                  ELSE TRUE
       IN [d |-> [t EXCEPT ![instr.dest] = is_divergent], ch |-> is_divergent]

visit_intrinsic(t, instr) ==
  IF instr.op \in NoDestIntrinsics THEN [d |-> t, ch |-> FALSE]
  ELSE IF t[instr.dest] THEN [d |-> t, ch |-> FALSE]
  ELSE LET is_divergent ==
             IF instr.op \in UniformIntrinsics THEN FALSE
             ELSE IF instr.op = "load_ubo"
                  THEN \E i \in DOMAIN instr.srcs : t[instr.srcs[i].ssa]
                  ELSE TRUE
       IN [d |-> [t EXCEPT ![instr.dest] = is_divergent], ch |-> is_divergent]

visit_tex(t, instr) ==
  IF t[instr.dest] THEN [d |-> t, ch |-> FALSE]
  ELSE LET is_divergent ==
             \E i \in DOMAIN instr.srcs :
                instr.srcs[i].src_type = "coord" /\ t[instr.srcs[i].ssa]
       IN [d |-> [t EXCEPT ![instr.dest] = is_divergent], ch |-> is_divergent]

\* the enclosing if conditions of block p, walking outward until the loop
EnclosingDivergent(t, p) ==
  \E k \in DOMAIN shader.encl[p] : t[shader.encl[p][k]]

NonUndef(instr) ==
  Cardinality({i \in DOMAIN instr.srcs :
                 ParentInstr(instr.srcs[i].ssa).type # "ssa_undef"})

\* visit_phi that never looks at the condition of the if before a gamma phi
visit_phi_nogamma(t, instr) ==
  IF t[instr.dest] THEN [d |-> t, ch |-> FALSE]
  ELSE IF \E i \in DOMAIN instr.srcs : t[instr.srcs[i].ssa]
       THEN [d |-> [t EXCEPT ![instr.dest] = TRUE], ch |-> TRUE]
  ELSE IF NonUndef(instr) <= 1 THEN [d |-> t, ch |-> FALSE]
  ELSE LET b == instr.block
           prev == shader.prevKind[b]
           unconditional ==
             {instr.srcs[i].ssa : i \in
                {j \in DOMAIN instr.srcs :
                    \/ instr.srcs[j].pred = shader.loopLast[b]
                    \/ instr.srcs[j].pred = shader.loopPrev[b]}}
           hit ==
             CASE prev = "none" ->
                    \E i \in DOMAIN instr.srcs :
                       /\ instr.srcs[i].ssa \notin unconditional
                       /\ EnclosingDivergent(t, instr.srcs[i].pred)
               [] prev = "if" -> FALSE
               [] OTHER ->
                    \E i \in DOMAIN instr.srcs :
                       EnclosingDivergent(t, instr.srcs[i].pred)
       IN IF hit THEN [d |-> [t EXCEPT ![instr.dest] = TRUE], ch |-> TRUE]
          ELSE [d |-> [t EXCEPT ![instr.dest] = FALSE], ch |-> FALSE]

visit_phi(t, instr) ==
  IF t[instr.dest] THEN [d |-> t, ch |-> FALSE]
  ELSE IF \E i \in DOMAIN instr.srcs : t[instr.srcs[i].ssa]
       THEN [d |-> [t EXCEPT ![instr.dest] = TRUE], ch |-> TRUE]
  ELSE IF NonUndef(instr) <= 1 THEN [d |-> t, ch |-> FALSE]
  ELSE LET b == instr.block
           prev == shader.prevKind[b]
           unconditional ==
             {instr.srcs[i].ssa : i \in
                {j \in DOMAIN instr.srcs :
                    \/ instr.srcs[j].pred = shader.loopLast[b]
                    \/ instr.srcs[j].pred = shader.loopPrev[b]}}
           hit ==
             CASE prev = "none" ->   \* mu
                    \E i \in DOMAIN instr.srcs :
                       /\ instr.srcs[i].ssa \notin unconditional
                       /\ EnclosingDivergent(t, instr.srcs[i].pred)
               [] prev = "if" ->     \* gamma
                    t[shader.prevIf[b]]
               [] OTHER ->           \* eta
                    \E i \in DOMAIN instr.srcs :
                       EnclosingDivergent(t, instr.srcs[i].pred)
       IN IF hit THEN [d |-> [t EXCEPT ![instr.dest] = TRUE], ch |-> TRUE]
          ELSE [d |-> [t EXCEPT ![instr.dest] = FALSE], ch |-> FALSE]

RECURSIVE copy_entries(_, _, _, _)
copy_entries(t, entries, k, has_changed) ==
  IF k > Len(entries) THEN [d |-> t, ch |-> has_changed]
  ELSE LET e == entries[k] IN
       IF t[e.dest] THEN copy_entries(t, entries, k + 1, has_changed)
       ELSE copy_entries([t EXCEPT ![e.dest] = t[e.ssa]], entries, k + 1,
                         has_changed \/ t[e.ssa])

visit_parallel_copy(t, instr) == copy_entries(t, instr.srcs, 1, FALSE)

visit_load_const(t, instr) == [d |-> [t EXCEPT ![instr.dest] = FALSE], ch |-> FALSE]

visit_ssa_undef(t, instr) == [d |-> [t EXCEPT ![instr.dest] = FALSE], ch |-> FALSE]

\* visit_deref that stores the negation of the old entry
visit_deref_toggle(t, instr) ==
  IF \E u \in UsesOf(instr.dest) : u.type # "tex"
  THEN [d |-> [t EXCEPT ![instr.dest] = FALSE], ch |-> FALSE]
  ELSE [d |-> [t EXCEPT ![instr.dest] = ~t[instr.dest]], ch |-> ~t[instr.dest]]

\* visit_deref with the two outcomes exchanged
visit_deref_inverted(t, instr) ==
  IF \E u \in UsesOf(instr.dest) : u.type # "tex"
  THEN [d |-> [t EXCEPT ![instr.dest] = TRUE], ch |-> ~t[instr.dest]]
  ELSE [d |-> [t EXCEPT ![instr.dest] = FALSE], ch |-> FALSE]

visit_deref(t, instr) ==
  IF \E u \in UsesOf(instr.dest) : u.type # "tex"
  THEN [d |-> [t EXCEPT ![instr.dest] = FALSE], ch |-> FALSE]
  ELSE [d |-> [t EXCEPT ![instr.dest] = TRUE], ch |-> ~t[instr.dest]]

\* the switch over instr->type in the block loop
visit_instr(t, instr) ==
  CASE instr.type = "alu" -> visit_alu(t, instr)
    [] instr.type = "intrinsic" -> visit_intrinsic(t, instr)
    [] instr.type = "tex" -> visit_tex(t, instr)
    [] instr.type = "phi" -> visit_phi(t, instr)
    [] instr.type = "parallel_copy" -> visit_parallel_copy(t, instr)
    [] instr.type = "load_const" -> visit_load_const(t, instr)
    [] instr.type = "ssa_undef" -> visit_ssa_undef(t, instr)
    [] instr.type = "deref" -> visit_deref(t, instr)
    [] instr.type = "jump" -> [d |-> t, ch |-> FALSE]

\* nir_foreach_instr(instr, block): has_changed |= visit_*(t, instr)
RECURSIVE visit_block(_, _, _, _)
visit_block(t, instrs, k, has_changed) ==
  IF k > Len(instrs) THEN [d |-> t, ch |-> has_changed]
  ELSE LET r == visit_instr(t, instrs[k])
       IN visit_block(r.d, instrs, k + 1, has_changed \/ r.ch)

\* nir_block_worklist_add_all: push every block that is not yet queued
RECURSIVE worklist_add_all(_, _)
worklist_add_all(w, b) ==
  IF b > Len(shader.blocks) THEN w
  ELSE worklist_add_all(IF b \in Range(w) THEN w ELSE Append(w, b), b + 1)

\* ---- the shaders analysed
\* A shader is its blocks (instructions in order) and, per block, what the
\* structured control flow tree says about it: the kind of nir_cf_node_prev
\* ("none": the block is the first of its list), the condition of that if,
\* the last block of the loop / the block before the loop (loop headers),
\* and the conditions of the ifs that enclose the block inside its loop.

\* block1; if (v4) { block2 } else { block3 }; block4 with a gamma phi
ShaderIf(k0, k1, c, x6, x7) ==
  [nssa |-> 8,
   blocks |-> <<
     << Instr("intrinsic", k0, 1, 1, 1, <<>>),
        Instr("intrinsic", k1, 2, 1, 1, <<Src(1)>>),
        Instr("alu", "vec2", 3, 2, 1, <<AluSrc(1, 1, 1), AluSrc(2, 1, 1)>>),
        Instr("alu", "ine", 4, 1, 1, <<c>>),
        Instr("deref", "var", 5, 1, 1, <<>>) >>,
     << CASE x6 = "alu" -> Instr("alu", "mov", 6, 1, 2, <<AluSrc(1, 1, 1)>>)
          [] x6 = "tex" -> Instr("tex", "tex", 6, 4, 2,
                                 <<TexSrc(2, "coord"), TexSrc(5, "texture_deref")>>)
          [] x6 = "undef" -> Instr("ssa_undef", "undef", 6, 1, 2, <<>>)
          [] x6 = "const" -> Instr("load_const", "const", 6, 1, 2, <<>>)
          [] x6 = "copy" -> Instr("parallel_copy", "pcopy", 0, 1, 2, <<CopyEntry(6, 1)>>) >>,
     << CASE x7 = "alu" -> Instr("alu", "mov", 7, 1, 3, <<AluSrc(2, 1, 1)>>)
          [] x7 = "undef" -> Instr("ssa_undef", "undef", 7, 1, 3, <<>>)
          [] x7 = "const" -> Instr("load_const", "const", 7, 1, 3, <<>>)
          [] x7 = "load_deref" -> Instr("intrinsic", "load_deref", 7, 1, 3, <<Src(5)>>) >>,
     << Instr("phi", "phi", 8, 1, 4, <<PhiSrc(6, 2), PhiSrc(7, 3)>>),
        Instr("intrinsic", "store_output", 0, 1, 4, <<Src(8)>>) >> >>,
   prevKind |-> <<"none", "none", "none", "if">>,
   prevIf |-> <<0, 0, 0, 4>>,
   loopLast |-> <<0, 0, 0, 0>>,
   loopPrev |-> <<0, 0, 0, 0>>,
   encl |-> << <<>>, <<>>, <<>>, <<>> >>]

\* block1; loop { block2 (header, np mu phis); if (cond) { block3: continue }
\* else { block4 }; block5 (last block) }; block6.
\* phi j merges the constant 2 with back value j; back value j is computed
\* from phi j+1, the last one from the last phi and from value bsrc.  The
\* first phi has an operand for the continue of block3 unless contSrc is
\* "none": the value computed in block3 ("iadd") or the constant 2 again
\* ("const").
ShaderLoop(np, k0, csel, bsrc, contSrc) ==
  LET phi(j) == 2 + j
      cond == 3 + np
      cont == 4 + np
      back(j) == 4 + np + j
  IN
  [nssa |-> 4 + 2 * np,
   blocks |-> <<
     << Instr("intrinsic", k0, 1, 1, 1, <<>>),
        Instr("load_const", "const", 2, 1, 1, <<>>) >>,
     [j \in 1..np |->
        Instr("phi", "phi", phi(j), 1, 2,
              <<PhiSrc(2, 1), PhiSrc(back(j), 5)>> \o
              (IF contSrc # "none" /\ j = 1
               THEN <<PhiSrc(IF contSrc = "iadd" THEN cont ELSE 2, 3)>>
               ELSE <<>>))]
       \o << Instr("alu", "ine", cond, 1, 2,
                   <<AluSrc(IF csel = "input" THEN 1 ELSE phi(1), 1, 1)>>) >>,
     << Instr("alu", "iadd", cont, 1, 3, <<AluSrc(phi(1), 1, 1), AluSrc(2, 1, 1)>>),
        Instr("jump", "continue", 0, 1, 3, <<>>) >>,
     << >>,
     [j \in 1..np |->
        Instr("alu", "iadd", back(j), 1, 5,
              IF j < np THEN <<AluSrc(phi(j + 1), 1, 1)>>
              ELSE <<AluSrc(phi(np), 1, 1), AluSrc(bsrc, 1, 1)>>)],
     << >> >>,
   prevKind |-> <<"none", "none", "none", "none", "if", "loop">>,
   prevIf |-> <<0, 0, 0, 0, cond, 0>>,
   loopLast |-> <<0, 5, 0, 0, 0, 0>>,
   loopPrev |-> <<0, 1, 0, 0, 0, 0>>,
   encl |-> << <<>>, <<>>, <<cond>>, <<cond>>, <<>>, <<>> >>]

InputIntrinsics == {"load_push_constant", "load_interpolated_input"}

Shaders ==
  {ShaderIf(k0, k1, c, x6, x7) :
      k0 \in InputIntrinsics, k1 \in {"load_ubo", "ballot"},
      c \in {AluSrc(3, 1, 1), AluSrc(3, 2, 1), AluSrc(3, 1, 2)},
      x6 \in {"alu", "tex", "undef", "const", "copy"},
      x7 \in {"alu", "undef", "const", "load_deref"}}
  \cup
  {ShaderLoop(np, k0, csel, bsrc, contSrc) :
      np \in 1..MaxLoopPhis, k0 \in InputIntrinsics, csel \in {"input", "phi"},
      bsrc \in {1, 2}, contSrc \in {"none", "iadd", "const"}}

DivIdle ==
  /\ shader = <<>> /\ divergent = <<>> /\ worklist = <<>>
  /\ dpc = "idle" /\ refills = 0

LiveIdle ==
  /\ lprog = <<>> /\ live_out = <<>> /\ lworklist = {} /\ register_demand = <<>>
  /\ block_demand = <<>> /\ prog_demand = <<0, 0>> /\ waves = <<0, 0, 0>>
  /\ lpc = "idle"

BoolIdle == bprog = <<>> /\ borig = <<>> /\ bblock = 0 /\ bpc = "idle"

SpillIdle ==
  sprog = <<>> /\ sctx = <<>> /\ sblock = 0 /\ sslots = <<>> /\ spc = "idle"

RaIdle == rprog = <<>> /\ rctx = <<>> /\ rblock = 0 /\ rpc = "idle"

AsmIdle ==
  aprog = <<>> /\ actx = <<>> /\ aout = <<>> /\ ablock = 0 /\ apc = "idle"

GrIdle ==
  greg_file = <<>> /\ gassign = <<>> /\ gargs = <<>> /\ gres = <<>> /\ gpc = "idle"

NuIdle ==
  /\ nprog = <<>> /\ nstart = <<>> /\ nend = <<>> /\ nworklist = {} /\ nsteps = 0
  /\ npc = "idle"

\* rzalloc_array + nir_block_worklist_init + nir_block_worklist_add_all
DivInit ==
  /\ LiveIdle /\ BoolIdle /\ SpillIdle /\ RaIdle /\ AsmIdle /\ GrIdle /\ NuIdle
  /\ shader \in Shaders
  /\ divergent = [i \in 1..shader.nssa |-> FALSE]
  /\ worklist = worklist_add_all(<<>>, 1)
  /\ dpc = "run"
  /\ refills = 0

\* one iteration of the while loop: pop the head block, visit its
\* instructions, and queue every block again if anything changed
DivVisitBlock ==
  /\ dpc = "run"
  /\ worklist # <<>>
  /\ LET block == Head(worklist)
         r == visit_block(divergent, shader.blocks[block], 1, FALSE)
     IN /\ divergent' = r.d
        /\ worklist' = IF r.ch THEN worklist_add_all(Tail(worklist), 1)
                       ELSE Tail(worklist)
        /\ refills' = IF r.ch /\ refills <= shader.nssa THEN refills + 1 ELSE refills
  /\ UNCHANGED <<shader, dpc>>
  /\ UNCHANGED <<liveVars, boolVars, spillVars, raVars, asmVars, grVars, nuVars>>

\* the worklist is empty: return t
DivReturn ==
  /\ dpc = "run"
  /\ worklist = <<>>
  /\ dpc' = "done"
  /\ UNCHANGED <<shader, divergent, worklist, refills>>
  /\ UNCHANGED <<liveVars, boolVars, spillVars, raVars, asmVars, grVars, nuVars>>

DivNext == DivVisitBlock \/ DivReturn

SpecDiv == DivInit /\ [][DivNext]_vars

\* the pass runs to completion: the loop is never abandoned half way
SpecDivFair == SpecDiv /\ WF_vars(DivNext)


\* ======================================================================
\* live_var_analysis (aco_live_var_analysis.cpp)
\* ======================================================================

\* uint16_t arithmetic
U16(x) == x % 65536

Max(a, b) == IF a >= b THEN a ELSE b

Min(a, b) == IF a <= b THEN a ELSE b

\* a temporary is its id; its register class is kept by the program
RC(ty, sz, lin) == [type |-> ty, size |-> sz, linear |-> lin]

\* Temp::is_linear(): sgprs and linear vgprs follow the linear CFG
is_linear(p, t) == p.rc[t].linear

\* Temp::type() == vgpr
is_vgpr(p, t) == p.rc[t].type = "vgpr"

\* Temp::size()
size(p, t) == p.rc[t].size

\* an instruction: definitions and operands are temp ids, 0 is a
\* definition or operand that is not a temporary
LInstr(op, definitions, operands) ==
  [opcode |-> op, definitions |-> definitions, operands |-> operands]

is_phi(insn) == insn.opcode \in {"p_phi", "p_linear_phi"}

\* the KILL loop without the sizes of the definitions that are not live
RECURSIVE kill_defs_nodead(_, _, _, _)
kill_defs_nodead(p, defs, k, st) ==
  IF k > Len(defs) THEN st
  ELSE LET d == defs[k] IN
    IF d = 0 THEN kill_defs_nodead(p, defs, k + 1, st)
    ELSE
      LET n == IF is_linear(p, d) THEN d \in st.live_sgprs ELSE d \in st.live_vgprs
          s1 == IF is_linear(p, d)
                THEN [st EXCEPT !.live_sgprs = @ \ {d}]
                ELSE [st EXCEPT !.live_vgprs = @ \ {d}]
          s2 == IF ~n THEN s1
                ELSE IF is_vgpr(p, d)
                     THEN [s1 EXCEPT !.vgpr_demand = U16(@ - size(p, d))]
                     ELSE [s1 EXCEPT !.sgpr_demand = U16(@ - size(p, d))]
      IN kill_defs_nodead(p, defs, k + 1, s2)

\* KILL loop of process_live_temps_per_block; st carries the two live sets,
\* the running demand and register_demand[i]
RECURSIVE kill_defs(_, _, _, _)
kill_defs(p, defs, k, st) ==
  IF k > Len(defs) THEN st
  ELSE LET d == defs[k] IN
    IF d = 0 THEN kill_defs(p, defs, k + 1, st)
    ELSE
      LET n == IF is_linear(p, d) THEN d \in st.live_sgprs ELSE d \in st.live_vgprs
          s1 == IF is_linear(p, d)
                THEN [st EXCEPT !.live_sgprs = @ \ {d}]
                ELSE [st EXCEPT !.live_vgprs = @ \ {d}]
          s2 == IF n
                THEN IF is_vgpr(p, d)
                     THEN [s1 EXCEPT !.vgpr_demand = U16(@ - size(p, d))]
                     ELSE [s1 EXCEPT !.sgpr_demand = U16(@ - size(p, d))]
                ELSE IF is_vgpr(p, d)
                     THEN [s1 EXCEPT !.rd_second = U16(@ + size(p, d))]
                     ELSE [s1 EXCEPT !.rd_first = U16(@ + size(p, d))]
      IN kill_defs(p, defs, k + 1, s2)

\* GEN of a phi: operand i goes into the live-out set of predecessor i
RECURSIVE gen_phi(_, _, _, _)
gen_phi(preds, operands, k, st) ==
  IF k > Len(preds) THEN st
  ELSE LET t == operands[k]
           q == preds[k] IN
    IF t = 0 THEN gen_phi(preds, operands, k + 1, st)
    ELSE gen_phi(preds, operands, k + 1,
           [st EXCEPT !.live_temps[q] = @ \cup {t},
                      !.worklist = IF t \in st.live_temps[q] THEN @ ELSE @ \cup {q}])

\* GEN of any other instruction
RECURSIVE gen_operands(_, _, _, _)
gen_operands(p, operands, k, st) ==
  IF k > Len(operands) THEN st
  ELSE LET t == operands[k] IN
    IF t = 0 THEN gen_operands(p, operands, k + 1, st)
    ELSE
      LET inserted == IF is_linear(p, t) THEN t \notin st.live_sgprs
                      ELSE t \notin st.live_vgprs
          s1 == IF is_linear(p, t)
                THEN [st EXCEPT !.live_sgprs = @ \cup {t}]
                ELSE [st EXCEPT !.live_vgprs = @ \cup {t}]
          s2 == IF ~inserted THEN s1
                ELSE IF is_vgpr(p, t)
                     THEN [s1 EXCEPT !.vgpr_demand = U16(@ + size(p, t))]
                     ELSE [s1 EXCEPT !.sgpr_demand = U16(@ + size(p, t))]
      IN gen_operands(p, operands, k + 1, s2)


\* the backward traversal of the instructions of a block, from index i down
RECURSIVE scan_instructions(_, _, _, _)
scan_instructions(p, block, i, st) ==
  IF i < 1 THEN st
  ELSE
    LET insn == p.blocks[block][i]
        s0 == [st EXCEPT !.rd_first = st.sgpr_demand, !.rd_second = st.vgpr_demand]
        s1 == kill_defs(p, insn.definitions, 1, s0)
        s2 == IF is_phi(insn)
              THEN gen_phi(IF insn.opcode = "p_phi"
                           THEN p.logical_predecessors[block]
                           ELSE p.linear_predecessors[block],
                           insn.operands, 1, s1)
              ELSE LET g == gen_operands(p, insn.operands, 1, s1)
                   IN [g EXCEPT !.block_vgpr = Max(@, g.vgpr_demand),
                                !.block_sgpr = Max(@, g.sgpr_demand)]
        s3 == [s2 EXCEPT !.register_demand[i] = <<s1.rd_first, s1.rd_second>>]
    IN scan_instructions(p, block, i - 1, s3)

\* demand of a set of temps of one register type
RECURSIVE demand_of(_, _)
demand_of(p, S) ==
  IF S = {} THEN 0
  ELSE LET t == CHOOSE x \in S : TRUE IN U16(size(p, t) + demand_of(p, S \ {t}))

\* merge a live-in set into the live-out sets of the given predecessors
merge_live_in(preds, S, st) ==
  [st EXCEPT
     !.live_temps = [q \in DOMAIN st.live_temps |->
                       IF q \in Range(preds) THEN st.live_temps[q] \cup S
                       ELSE st.live_temps[q]],
     !.worklist = @ \cup {q \in Range(preds) : ~(S \subseteq st.live_temps[q])}]

\* merging the vector live-ins into the linear predecessors as well
merge_live_in_swapped(p, block, st) ==
  merge_live_in(p.linear_predecessors[block], st.live_vgprs \cup st.live_sgprs, st)

\* the two merge loops at the end of process_live_temps_per_block
merge_into_predecessors(p, block, st) ==
  merge_live_in(p.linear_predecessors[block], st.live_sgprs,
    merge_live_in(p.logical_predecessors[block], st.live_vgprs, st))

\* process_live_temps_per_block<true>
process_live_temps_per_block(p, live_temps, block, wl) ==
  LET lo == live_temps[block]
      st0 == [live_sgprs |-> {t \in lo : is_linear(p, t)},
              live_vgprs |-> {t \in lo : ~is_linear(p, t)},
              vgpr_demand |-> demand_of(p, {t \in lo : is_vgpr(p, t)}),
              sgpr_demand |-> demand_of(p, {t \in lo : ~is_vgpr(p, t)}),
              rd_first |-> 0, rd_second |-> 0,
              register_demand |-> [i \in 1..Len(p.blocks[block]) |-> <<0, 0>>],
              block_vgpr |-> 0, block_sgpr |-> 0,
              live_temps |-> live_temps, worklist |-> wl]
      st1 == scan_instructions(p, block, Len(p.blocks[block]), st0)
  IN merge_into_predecessors(p, block, st1)

\* the occupancy computation at the end of live_var_analysis<true>;
\* sgpr_demand already includes the two registers of VCC
RoundUp(x, a) == U16(((x + a - 1) \div a) * a)

RoundDown(x, a) == (x \div a) * a

total_sgpr_regs(ge_vi) == IF ge_vi THEN 800 ELSE 512

max_addressible_sgpr(ge_vi) == IF ge_vi THEN 102 ELSE 104

\* the occupancy computed from the vector demand rounded down
calc_waves_floor(sgpr_demand, vgpr_demand, ge_vi) ==
  LET rounded_vgpr_demand == Max(4, RoundDown(vgpr_demand, 4))
      rounded_sgpr_demand == Min(Max(8, RoundUp(sgpr_demand, 8)),
                                 max_addressible_sgpr(ge_vi))
  IN IF vgpr_demand > 256 \/ sgpr_demand > max_addressible_sgpr(ge_vi)
     THEN <<0, sgpr_demand, vgpr_demand>>
     ELSE LET num_waves == Min(10, Min(256 \div rounded_vgpr_demand,
                                total_sgpr_regs(ge_vi) \div rounded_sgpr_demand))
          IN <<num_waves,
               U16(Min(RoundDown(total_sgpr_regs(ge_vi) \div num_waves, 8),
                       max_addressible_sgpr(ge_vi)) - 2),
               RoundDown(256 \div num_waves, 4)>>

\* the occupancy when only the vector demand can exhaust the registers
calc_waves_vgpr_only(sgpr_demand, vgpr_demand, ge_vi) ==
  LET rounded_vgpr_demand == Max(4, RoundUp(vgpr_demand, 4))
      rounded_sgpr_demand == Min(Max(8, RoundUp(sgpr_demand, 8)),
                                 max_addressible_sgpr(ge_vi))
  IN IF vgpr_demand > 256
     THEN <<0, sgpr_demand, vgpr_demand>>
     ELSE LET num_waves == Min(10, Min(256 \div rounded_vgpr_demand,
                                total_sgpr_regs(ge_vi) \div rounded_sgpr_demand))
          IN <<num_waves,
               U16(Min(RoundDown(total_sgpr_regs(ge_vi) \div num_waves, 8),
                       max_addressible_sgpr(ge_vi)) - 2),
               RoundDown(256 \div num_waves, 4)>>

calc_waves(sgpr_demand, vgpr_demand, ge_vi) ==
  LET rounded_vgpr_demand == Max(4, RoundUp(vgpr_demand, 4))
      rounded_sgpr_demand == Min(Max(8, RoundUp(sgpr_demand, 8)),
                                 max_addressible_sgpr(ge_vi))
  IN IF vgpr_demand > 256 \/ sgpr_demand > max_addressible_sgpr(ge_vi)
     THEN <<0, sgpr_demand, vgpr_demand>>
     ELSE LET num_waves == Min(10, Min(256 \div rounded_vgpr_demand,
                                total_sgpr_regs(ge_vi) \div rounded_sgpr_demand))
          IN <<num_waves,
               U16(Min(RoundDown(total_sgpr_regs(ge_vi) \div num_waves, 8),
                       max_addressible_sgpr(ge_vi)) - 2),
               RoundDown(256 \div num_waves, 4)>>


\* ---- the programs the analysis is run on

s1 == RC("sgpr", 1, TRUE)

s2 == RC("sgpr", 2, TRUE)

v1 == RC("vgpr", 1, FALSE)

v1_linear == RC("vgpr", 1, TRUE)

OptInstr(c, insn) == IF c THEN <<insn>> ELSE <<>>

\* a divergent if: entry 1, then 2, invert 3 (linear CFG only), else 4,
\* merge 5
ProgramIf(thenOps, elseOps, phiKind, useOps, usePhi, linVgpr, ge_vi) ==
  [nblocks |-> 5,
   rc |-> <<s1, v1, s2, v1, v1, v1, s1, s1, v1_linear>>,
   ge_vi |-> ge_vi,
   logical_predecessors |-> << <<>>, <<1>>, <<>>, <<1>>, <<2, 4>> >>,
   linear_predecessors |-> << <<>>, <<1>>, <<1, 2>>, <<3>>, <<3, 4>> >>,
   blocks |-> <<
     <<LInstr("s_load_dword", <<1>>, <<>>),
       LInstr("v_mov_b32", <<2>>, <<1>>),
       LInstr("v_cmp_lt_f32", <<3>>, <<2, 0>>)>>
       \o OptInstr(linVgpr, LInstr("p_start_linear_vgpr", <<9>>, <<>>))
       \o <<LInstr("p_cbranch_z", <<>>, <<3>>)>>,
     <<LInstr("v_add_f32", <<4>>, thenOps), LInstr("p_branch", <<>>, <<>>)>>,
     <<LInstr("p_branch", <<>>, <<>>)>>,
     <<LInstr("v_mul_f32", <<5>>, elseOps), LInstr("s_mov_b32", <<7>>, <<0>>),
       LInstr("p_branch", <<>>, <<>>)>>,
     OptInstr(phiKind \in {"logical", "both"}, LInstr("p_phi", <<6>>, <<4, 5>>))
       \o OptInstr(phiKind = "logical_const", LInstr("p_phi", <<6>>, <<4, 0>>))
       \o OptInstr(phiKind \in {"linear", "both"},
                   LInstr("p_linear_phi", <<8>>, <<1, 7>>))
       \o <<LInstr("exp", <<>>,
                   useOps
                   \o (IF usePhi /\ phiKind \in {"logical", "logical_const", "both"}
                       THEN <<6>> ELSE <<>>)
                   \o (IF usePhi /\ phiKind \in {"linear", "both"}
                       THEN <<8>> ELSE <<>>))>>
       \o OptInstr(linVgpr, LInstr("p_end_linear_vgpr", <<>>, <<9>>))
       \o <<LInstr("s_endpgm", <<>>, <<>>)>> >>]

\* a loop: entry 1, header 2, body 3 (jumps back to the header), exit 4
ProgramLoop(phiV, phiS, hdrOps, bodyOps, exitOps, ge_vi) ==
  [nblocks |-> 4,
   rc |-> <<s1, v1, s2, v1, v1, s1, s1>>,
   ge_vi |-> ge_vi,
   logical_predecessors |-> << <<>>, <<1, 3>>, <<2>>, <<2>> >>,
   linear_predecessors |-> << <<>>, <<1, 3>>, <<2>>, <<2>> >>,
   blocks |-> <<
     <<LInstr("s_load_dword", <<1>>, <<>>),
       LInstr("v_mov_b32", <<2>>, <<1>>),
       LInstr("s_mov_b64", <<3>>, <<0>>),
       LInstr("p_branch", <<>>, <<>>)>>,
     OptInstr(phiV, LInstr("p_phi", <<4>>, <<2, 5>>))
       \o OptInstr(phiS, LInstr("p_linear_phi", <<6>>, <<1, 7>>))
       \o <<LInstr("v_cmp_lt_f32", <<0>>, hdrOps \o (IF phiV THEN <<4>> ELSE <<>>)),
            LInstr("p_cbranch_z", <<>>, <<>>)>>,
     <<LInstr("v_add_f32", <<5>>, bodyOps),
       LInstr("s_add_u32", <<7, 0>>, IF phiS THEN <<6, 0>> ELSE <<1, 0>>),
       LInstr("p_branch", <<>>, <<>>)>>,
     <<LInstr("exp", <<>>, exitOps), LInstr("s_endpgm", <<>>, <<>>)>> >>]

LivePrograms ==
  {ProgramIf(thenOps, elseOps, phiKind, useOps, usePhi, linVgpr, ge_vi) :
      thenOps \in {<<2>>, <<2, 3>>, <<0>>},
      elseOps \in {<<2>>, <<1>>, <<0, 2>>},
      phiKind \in {"none", "logical", "logical_const", "linear", "both"},
      useOps \in {<<>>, <<2>>, <<3>>, <<2, 3>>},
      usePhi \in BOOLEAN, linVgpr \in BOOLEAN, ge_vi \in BOOLEAN}
  \cup
  {ProgramLoop(phiV, phiS, hdrOps, bodyOps, exitOps, ge_vi) :
      phiV \in BOOLEAN, phiS \in BOOLEAN,
      hdrOps \in {<<2>>, <<3>>, <<0>>},
      bodyOps \in {<<2>>, <<0>>, <<1, 2>>},
      exitOps \in {<<>>, <<2>>, <<3, 2>>, <<1>>},
      ge_vi \in BOOLEAN}

\* result.live_out.resize(); every block is put on the worklist
LiveInit ==
  /\ DivIdle /\ BoolIdle /\ SpillIdle /\ RaIdle /\ AsmIdle /\ GrIdle /\ NuIdle
  /\ lprog \in LivePrograms
  /\ live_out = [b \in 1..lprog.nblocks |-> {}]
  /\ lworklist = 1..lprog.nblocks
  /\ register_demand = [b \in 1..lprog.nblocks |-> <<>>]
  /\ block_demand = [b \in 1..lprog.nblocks |-> <<0, 0>>]
  /\ prog_demand = <<0, 0>>
  /\ waves = <<0, 0, 0>>
  /\ lpc = "run"

\* one iteration of the while loop: take the block with the largest index
\* off the worklist and process it
LiveProcessBlock ==
  /\ lpc = "run"
  /\ lworklist # {}
  /\ LET block_idx == CHOOSE b \in lworklist : \A c \in lworklist : c <= b
         r == process_live_temps_per_block(lprog, live_out, block_idx,
                                           lworklist \ {block_idx})
     IN /\ live_out' = r.live_temps
        /\ lworklist' = r.worklist
        /\ register_demand' = [register_demand EXCEPT ![block_idx] = r.register_demand]
        /\ block_demand' = [block_demand EXCEPT ![block_idx] = <<r.block_sgpr, r.block_vgpr>>]
        /\ prog_demand' = <<Max(prog_demand[1], r.block_sgpr),
                            Max(prog_demand[2], r.block_vgpr)>>
  /\ UNCHANGED <<lprog, waves, lpc>>
  /\ UNCHANGED <<divVars, boolVars, spillVars, raVars, asmVars, grVars, nuVars>>

\* the worklist is empty: add VCC to the demand and compute the occupancy
LiveFinish ==
  /\ lpc = "run"
  /\ lworklist = {}
  /\ prog_demand' = <<U16(prog_demand[1] + 2), prog_demand[2]>>
  /\ waves' = calc_waves(U16(prog_demand[1] + 2), prog_demand[2], lprog.ge_vi)
  /\ lpc' = "done"
  /\ UNCHANGED <<lprog, live_out, lworklist, register_demand, block_demand>>
  /\ UNCHANGED <<divVars, boolVars, spillVars, raVars, asmVars, grVars, nuVars>>

LiveNext == LiveProcessBlock \/ LiveFinish

SpecLive == LiveInit /\ [][LiveNext]_vars

SpecLiveFair == SpecLive /\ WF_vars(LiveNext)


\* ======================================================================
\* lower_bool_phis (aco_lower_bool_phis.cpp)
\* ======================================================================

rc_b == RC("scc", 0, TRUE)

\* Operand: a temporary, an undefined operand, a constant or a fixed register
TempOp(id, rc) == [kind |-> "temp", id |-> id, rc |-> rc, fixed |-> "none", val |-> 0]

UndefOp == [kind |-> "undef", id |-> 0, rc |-> rc_b, fixed |-> "none", val |-> 0]

ConstOp(v) == [kind |-> "const", id |-> 0, rc |-> rc_b, fixed |-> "none", val |-> v]

FixedOp(reg, rc) == [kind |-> "reg", id |-> 0, rc |-> rc, fixed |-> reg, val |-> 0]

\* Definition
BDef(id, rc, fixed) == [id |-> id, rc |-> rc, fixed |-> fixed]

\* create_instruction
BInstr(op, format, operands, definitions) ==
  [opcode |-> op, format |-> format, operands |-> operands,
   definitions |-> definitions]

\* ssa_state: latest maps a block to a temp id (0: no entry); phis holds
\* <<value, block, phi_def, operand index>> for every bit of the masks
EmptySsaState(p) ==
  [latest |-> [x \in 1..p.nblocks |-> 0], phis |-> {}]

\* With(v, F) is F(v) with v evaluated once, for the intermediate results
\* that a function reads several times
With(v, F(_)) == CHOOSE y \in {F(x) : x \in {v}} : TRUE

RECURSIVE get_ssa(_, _, _)
RECURSIVE get_ssa_operands(_, _, _, _, _, _)
RECURSIVE get_ssa_forget(_, _, _)
\* a get_ssa that does not keep the new phi definition in state->latest
get_ssa_forget(p, block, state) ==
  IF state.latest[block] # 0
  THEN [res |-> TempOp(state.latest[block], s2), p |-> p, state |-> state]
  ELSE
    LET pred == Len(p.linear_predecessors[block]) IN
    IF pred = 0 THEN [res |-> UndefOp, p |-> p, state |-> state]
    ELSE IF pred = 1 THEN get_ssa_forget(p, p.linear_predecessors[block][1], state)
    ELSE
      LET res == p.allocationID IN
      With(<<[p EXCEPT !.allocationID = @ + 1], [state EXCEPT !.latest[block] = res]>>,
        LAMBDA a :
          With(get_ssa_operands(a[1], block, a[2], res, 1, <<>>),
            LAMBDA r :
              [res |-> TempOp(res, s2),
               p |-> [r.p EXCEPT !.blocks[block] =
                        <<BInstr("p_linear_phi", "PSEUDO", r.ops,
                                 <<BDef(res, s2, "none")>>)>> \o @],
               state |-> [r.state EXCEPT !.latest[block] = 0]]))

\* get_ssa: the accumulator value at the end of block; creates linear phis
\* on demand
get_ssa(p, block, state) ==
  IF state.latest[block] # 0
  THEN [res |-> TempOp(state.latest[block], s2), p |-> p, state |-> state]
  ELSE
    LET pred == Len(p.linear_predecessors[block]) IN
    IF pred = 0 THEN [res |-> UndefOp, p |-> p, state |-> state]
    ELSE IF pred = 1 THEN get_ssa(p, p.linear_predecessors[block][1], state)
    ELSE
      LET res == p.allocationID IN
      With(<<[p EXCEPT !.allocationID = @ + 1], [state EXCEPT !.latest[block] = res]>>,
        LAMBDA a :
          With(get_ssa_operands(a[1], block, a[2], res, 1, <<>>),
            LAMBDA r :
              [res |-> TempOp(res, s2),
               p |-> [r.p EXCEPT !.blocks[block] =
                        <<BInstr("p_linear_phi", "PSEUDO", r.ops,
                                 <<BDef(res, s2, "none")>>)>> \o @],
               state |-> r.state]))

\* the operand loop of get_ssa
get_ssa_operands(p, block, state, res, i, ops) ==
  IF i > Len(p.linear_predecessors[block])
  THEN [ops |-> ops, p |-> p, state |-> state]
  ELSE
    With(get_ssa(p, p.linear_predecessors[block][i], state),
      LAMBDA r :
        With(<<IF r.res.kind = "temp"
               THEN [r.state EXCEPT !.phis = @ \cup {<<r.res.id, block, res, i>>}]
               ELSE r.state,
               Append(ops, r.res)>>,
          LAMBDA a : get_ssa_operands(r.p, block, a[1], res, i + 1, a[2])))

\* the index of the linear phi of block that defines phi_def, 0 if the
\* scan over the leading phis does not find it
RECURSIVE find_linear_phi(_, _, _)
find_linear_phi(instrs, phi_def, k) ==
  IF k > Len(instrs) THEN 0
  ELSE IF instrs[k].opcode \notin {"p_phi", "p_linear_phi"} THEN 0
  ELSE IF instrs[k].opcode = "p_linear_phi" /\ instrs[k].definitions[1].id = phi_def
       THEN k
  ELSE find_linear_phi(instrs, phi_def, k + 1)

\* update_phi: read the operands named by operand_mask again
RECURSIVE update_phi(_, _, _, _, _)
update_phi(p, state, block, phi_def, operand_mask) ==
  IF find_linear_phi(p.blocks[block], phi_def, 1) = 0
  THEN [p |-> [p EXCEPT !.assert_failed = TRUE], state |-> state]
  ELSE IF operand_mask = {} THEN [p |-> p, state |-> state]
  ELSE
    LET operand == CHOOSE i \in operand_mask : \A j \in operand_mask : i <= j IN
    With(get_ssa(p, p.linear_predecessors[block][operand], state),
      LAMBDA r :
        With(<<[r.p EXCEPT !.blocks[block]
                              [find_linear_phi(r.p.blocks[block], phi_def, 1)]
                              .operands[operand] = r.res],
               IF r.res.kind # "undef"
               THEN [r.state EXCEPT
                       !.phis = @ \cup {<<r.res.id, block, phi_def, operand>>}]
               ELSE r.state>>,
          LAMBDA a : update_phi(a[1], a[2], block, phi_def, operand_mask \ {operand})))

\* the loop of write_ssa over the phis that used the previous value, in the
\* order of the std::map (block, phi_def)
RECURSIVE update_phis(_, _, _)
update_phis(p, state, phis) ==
  IF phis = {} THEN [p |-> p, state |-> state]
  ELSE
    LET keys == {<<x[2], x[3]>> : x \in phis}
        key == CHOOSE a \in keys :
                 \A c \in keys : a[1] < c[1] \/ (a[1] = c[1] /\ a[2] <= c[2])
        mine == {x \in phis : x[2] = key[1] /\ x[3] = key[2]}
    IN With(update_phi(p, state, key[1], key[2], {x[4] : x \in mine}),
         LAMBDA r : update_phis(r.p, r.state, phis \ mine))

\* write_ssa: a new accumulator value at the end of block
write_ssa(p, block, state, previous) ==
  LET id == p.allocationID
      phis == {x \in state.phis : x[1] = previous}
  IN With(<<[p EXCEPT !.allocationID = @ + 1],
            [state EXCEPT !.latest[block] = id, !.phis = @ \ phis]>>,
       LAMBDA a :
         With(IF previous # 0 THEN update_phis(a[1], a[2], phis)
              ELSE [p |-> a[1], state |-> a[2]],
           LAMBDA r : [id |-> id, p |-> r.p, state |-> r.state]))

InsertAt(seq, k, e) == SubSeq(seq, 1, k - 1) \o <<e>> \o SubSeq(seq, k, Len(seq))

\* insert_before_branch; reading instructions[-1] of an empty block is
\* undefined behaviour, recorded in p.ub
insert_before_branch(p, block, instr) ==
  LET instrs == p.blocks[block]
      end == Len(instrs)
  IN IF end = 0
     THEN [p EXCEPT !.blocks[block] = <<instr>>, !.ub = TRUE]
     ELSE IF instrs[end].format = "PSEUDO_BRANCH"
          THEN [p EXCEPT !.blocks[block] = InsertAt(instrs, end, instr)]
          ELSE [p EXCEPT !.blocks[block] = Append(instrs, instr)]

\* insert_before_logical_end
insert_before_logical_end(p, block, instr) ==
  LET instrs == p.blocks[block]
      ends == {i \in DOMAIN instrs : instrs[i].opcode = "p_logical_end"}
  IN IF ends # {}
     THEN [p EXCEPT !.blocks[block] =
             InsertAt(instrs, CHOOSE i \in ends : \A j \in ends : j <= i, instr)]
     ELSE insert_before_branch(p, block, instr)

\* the code emitted for one predecessor when the accumulator is undefined
emit_mov(p, pred, phi_src, new_cur) ==
  insert_before_logical_end(p, pred,
    BInstr("s_mov_b64", "SOP1", <<TempOp(phi_src, s2)>>, <<BDef(new_cur, s2, "none")>>))

\* a blend with the operands of s_andn2_b64 exchanged:
\* new_cur = (exec & ~cur) | (phi_src & exec)
emit_blend_swapped(p, pred, cur, phi_src, new_cur) ==
  LET tmp1 == p.allocationID
      scc1 == p.allocationID + 1
      tmp2 == p.allocationID + 2
      scc2 == p.allocationID + 3
      scc3 == p.allocationID + 4
      p1 == insert_before_logical_end([p EXCEPT !.allocationID = @ + 5], pred,
              BInstr("s_andn2_b64", "SOP2", <<FixedOp("exec", s2), cur>>,
                     <<BDef(tmp1, s2, "none"), BDef(scc1, rc_b, "scc")>>))
      p2 == insert_before_logical_end(p1, pred,
              BInstr("s_and_b64", "SOP2", <<TempOp(phi_src, s2), FixedOp("exec", s2)>>,
                     <<BDef(tmp2, s2, "none"), BDef(scc2, rc_b, "scc")>>))
  IN insert_before_logical_end(p2, pred,
       BInstr("s_or_b64", "SOP2", <<TempOp(tmp1, s2), TempOp(tmp2, s2)>>,
              <<BDef(new_cur, s2, "none"), BDef(scc3, rc_b, "scc")>>))

\* the blend emitted for one predecessor:
\* new_cur = (cur & ~exec) | (phi_src & exec)
emit_blend(p, pred, cur, phi_src, new_cur) ==
  LET tmp1 == p.allocationID
      scc1 == p.allocationID + 1
      tmp2 == p.allocationID + 2
      scc2 == p.allocationID + 3
      scc3 == p.allocationID + 4
      p1 == insert_before_logical_end([p EXCEPT !.allocationID = @ + 5], pred,
              BInstr("s_andn2_b64", "SOP2", <<cur, FixedOp("exec", s2)>>,
                     <<BDef(tmp1, s2, "none"), BDef(scc1, rc_b, "scc")>>))
      p2 == insert_before_logical_end(p1, pred,
              BInstr("s_and_b64", "SOP2", <<TempOp(phi_src, s2), FixedOp("exec", s2)>>,
                     <<BDef(tmp2, s2, "none"), BDef(scc2, rc_b, "scc")>>))
  IN insert_before_logical_end(p2, pred,
       BInstr("s_or_b64", "SOP2", <<TempOp(tmp1, s2), TempOp(tmp2, s2)>>,
              <<BDef(new_cur, s2, "none"), BDef(scc3, rc_b, "scc")>>))

\* the s_cselect_b64 that turns an scc boolean into a lane mask
emit_cselect(p, pred, src, phi_src) ==
  insert_before_logical_end(p, pred,
    BInstr("s_cselect_b64", "SOP2",
           <<ConstOp(-1), ConstOp(0), [TempOp(src.id, s1) EXCEPT !.fixed = "scc"]>>,
           <<BDef(phi_src, s2, "none")>>))

\* the loop of lower_divergent_bool_phi over the operands of the phi
RECURSIVE lower_operands(_, _, _, _, _)
lower_operands(p, block, phi, state, i) ==
  IF i > Len(phi.operands) THEN [p |-> p, state |-> state]
  ELSE
    LET pred == p.logical_predecessors[block][i]
        src == phi.operands[i]
        phi_src == IF src.rc = s1 THEN p.allocationID ELSE src.id
    IN
    With(IF src.rc = s1
         THEN emit_cselect([p EXCEPT !.allocationID = @ + 1], pred, src, phi_src)
         ELSE p,
      LAMBDA p1 :
        With(get_ssa(p1, pred, state),
          LAMBDA cur :
            With(write_ssa(cur.p, pred, cur.state, cur.res.id),
              LAMBDA w :
                With(IF cur.res.kind = "undef"
                     THEN emit_mov(w.p, pred, phi_src, w.id)
                     ELSE emit_blend(w.p, pred, cur.res, phi_src, w.id),
                  LAMBDA p2 : lower_operands(p2, block, phi, w.state, i + 1)))))

\* lower_divergent_bool_phi: returns the copy that replaces the phi
lower_divergent_bool_phi(p, block, phi) ==
  With(lower_operands(p, block, phi, EmptySsaState(p), 1),
    LAMBDA r :
      With(get_ssa(r.p, block, r.state),
        LAMBDA g :
          [copy |-> BInstr("s_mov_b64", "SOP1", <<g.res>>, <<phi.definitions[1]>>),
           p |-> g.p]))

\* the first loop of lower_bool_phis over the leading phis of a block
RECURSIVE lower_phis(_, _, _, _, _)
lower_phis(p, block, instructions, i, non_phi) ==
  IF i > Len(instructions) \/ instructions[i].opcode \notin {"p_phi", "p_linear_phi"}
  THEN [p |-> p, i |-> i, non_phi |-> non_phi]
  ELSE
    LET phi == instructions[i] IN
    IF phi.opcode = "p_phi" /\ phi.definitions[1].rc = s2
    THEN With(lower_divergent_bool_phi(p, block, phi),
           LAMBDA r :
             With(Append(non_phi, r.copy),
               LAMBDA n : lower_phis(r.p, block, instructions, i + 1, n)))
    ELSE With([p EXCEPT !.blocks[block] = Append(@, phi)],
           LAMBDA q : lower_phis(q, block, instructions, i + 1, non_phi))

\* the copies are put in front of the phis that are kept
lower_block_copies_first(p, block) ==
  LET instructions == p.blocks[block] IN
  With(lower_phis([p EXCEPT !.blocks[block] = <<>>], block, instructions, 1, <<>>),
    LAMBDA r :
      [r.p EXCEPT !.blocks[block] =
         r.non_phi \o @ \o SubSeq(instructions, r.i, Len(instructions))])

\* the body of the loop of lower_bool_phis over the blocks
lower_block(p, block) ==
  LET instructions == p.blocks[block] IN
  With(lower_phis([p EXCEPT !.blocks[block] = <<>>], block, instructions, 1, <<>>),
    LAMBDA r :
      [r.p EXCEPT !.blocks[block] =
         @ \o r.non_phi \o SubSeq(instructions, r.i, Len(instructions))])

\* ---- the programs the pass is run on

LogicalStart == BInstr("p_logical_start", "PSEUDO", <<>>, <<>>)

LogicalEnd == BInstr("p_logical_end", "PSEUDO", <<>>, <<>>)

Branch == BInstr("p_branch", "PSEUDO_BRANCH", <<>>, <<>>)

\* an instruction that defines a boolean: a lane mask (s2) or scc (s1)
DefBool(id, rc) ==
  IF rc = s2 THEN BInstr("v_cmp_lt_f32", "VOPC", <<ConstOp(0)>>, <<BDef(id, s2, "none")>>)
  ELSE BInstr("s_cmp_eq_u32", "SOPC", <<ConstOp(0)>>, <<BDef(id, s1, "scc")>>)

DefV1(id) == BInstr("v_mov_b32", "VOP1", <<ConstOp(0)>>, <<BDef(id, v1, "none")>>)

UseOf(id, rc) == BInstr("v_cndmask_b32", "VOP2", <<TempOp(id, rc)>>, <<>>)

BoolPhi(d, a, rcA, c, rcC) ==
  BInstr("p_phi", "PSEUDO", <<TempOp(a, rcA), TempOp(c, rcC)>>, <<BDef(d, s2, "none")>>)

V1Phi(d, a, c) ==
  BInstr("p_phi", "PSEUDO", <<TempOp(a, v1), TempOp(c, v1)>>, <<BDef(d, v1, "none")>>)

S1LinearPhi(d) ==
  BInstr("p_linear_phi", "PSEUDO", <<ConstOp(0), ConstOp(1)>>, <<BDef(d, s1, "none")>>)

\* the body of a block, with or without p_logical_end and a final branch
Body(instrs, hasLogicalEnd, hasBranch) ==
  <<LogicalStart>> \o instrs
    \o (IF hasLogicalEnd THEN <<LogicalEnd>> ELSE <<>>)
    \o (IF hasBranch THEN <<Branch>> ELSE <<>>)

FirstFreeId == 10

\* a divergent if: entry 1, then 2, invert 3, else 4, merge 5; the merge
\* block starts with a boolean phi of temp 1 (block 2) and temp 2 (block 4)
BoolIf(rcA, rcC, extra, hasLogicalEnd, hasBranch) ==
  [nblocks |-> 5, allocationID |-> FirstFreeId, assert_failed |-> FALSE, ub |-> FALSE,
   logical_predecessors |-> << <<>>, <<1>>, <<>>, <<1>>, <<2, 4>> >>,
   linear_predecessors |-> << <<>>, <<1>>, <<1, 2>>, <<3>>, <<3, 4>> >>,
   blocks |-> <<
     Body(<<>>, TRUE, TRUE),
     Body(<<DefV1(5), DefBool(1, rcA)>>, hasLogicalEnd, hasBranch),
     <<Branch>>,
     Body(<<DefV1(6), DefBool(2, rcC)>>, hasLogicalEnd, hasBranch),
     (CASE extra = "none" -> <<BoolPhi(3, 1, rcA, 2, rcC)>>
        [] extra = "v1_before" -> <<V1Phi(4, 5, 6), BoolPhi(3, 1, rcA, 2, rcC)>>
        [] extra = "v1_after" -> <<BoolPhi(3, 1, rcA, 2, rcC), V1Phi(4, 5, 6)>>
        [] extra = "bool2" -> <<BoolPhi(3, 1, rcA, 2, rcC), BoolPhi(4, 1, rcA, 2, rcC)>>
        [] extra = "linear_before" -> <<S1LinearPhi(4), BoolPhi(3, 1, rcA, 2, rcC)>>
        [] extra = "between" ->
             <<V1Phi(4, 5, 6), BoolPhi(3, 1, rcA, 2, rcC), S1LinearPhi(7)>>)
       \o Body(<<UseOf(3, s2)>>, TRUE, FALSE) >>]

\* a loop: entry 1, header 2, latch 3, exit 4; the header starts with a
\* boolean phi of temp 1 (block 1) and temp 2 (block 3)
BoolLoop(rcA, rcC, extra, hasLogicalEnd) ==
  [nblocks |-> 4, allocationID |-> FirstFreeId, assert_failed |-> FALSE, ub |-> FALSE,
   logical_predecessors |-> << <<>>, <<1, 3>>, <<2>>, <<2>> >>,
   linear_predecessors |-> << <<>>, <<1, 3>>, <<2>>, <<2>> >>,
   blocks |-> <<
     Body(<<DefV1(5), DefBool(1, rcA)>>, hasLogicalEnd, TRUE),
     (CASE extra = "none" -> <<BoolPhi(3, 1, rcA, 2, rcC)>>
        [] extra = "v1_before" -> <<V1Phi(4, 5, 6), BoolPhi(3, 1, rcA, 2, rcC)>>
        [] extra = "v1_after" -> <<BoolPhi(3, 1, rcA, 2, rcC), V1Phi(4, 5, 6)>>)
       \o Body(<<UseOf(3, s2)>>, TRUE, TRUE),
     Body(<<DefV1(6), DefBool(2, rcC)>>, hasLogicalEnd, TRUE),
     Body(<<>>, TRUE, FALSE) >>]

\* a loop whose body is a divergent if: entry 1, header 2, then 3, invert 4,
\* else 5, merge and latch 6, exit 7; boolean phis in the header (temp 1 from
\* block 1, temp 2 from block 6) and in the merge block (temp 2 of temp 8
\* from block 3 and temp 9 from block 5)
BoolLoopIf(rcA, rcC, rcX, hasLogicalEnd) ==
  [nblocks |-> 7, allocationID |-> FirstFreeId, assert_failed |-> FALSE, ub |-> FALSE,
   logical_predecessors |-> << <<>>, <<1, 6>>, <<2>>, <<>>, <<2>>, <<3, 5>>, <<2>> >>,
   linear_predecessors |-> << <<>>, <<1, 6>>, <<2>>, <<2, 3>>, <<4>>, <<4, 5>>, <<2>> >>,
   blocks |-> <<
     Body(<<DefBool(1, rcX)>>, hasLogicalEnd, TRUE),
     <<BoolPhi(3, 1, rcX, 2, s2)>> \o Body(<<UseOf(3, s2)>>, TRUE, TRUE),
     Body(<<DefBool(8, rcA)>>, hasLogicalEnd, TRUE),
     <<Branch>>,
     Body(<<DefBool(9, rcC)>>, hasLogicalEnd, TRUE),
     <<BoolPhi(2, 8, rcA, 9, rcC)>> \o Body(<<UseOf(2, s2)>>, hasLogicalEnd, TRUE),
     Body(<<>>, TRUE, FALSE) >>]

BoolClasses == {s1, s2}

BoolPrograms ==
  {BoolIf(rcA, rcC, extra, hasLogicalEnd, hasBranch) :
      rcA \in BoolClasses, rcC \in BoolClasses,
      extra \in {"none", "v1_before", "v1_after", "bool2", "linear_before", "between"},
      hasLogicalEnd \in BOOLEAN, hasBranch \in BOOLEAN}
  \cup
  {BoolLoop(rcA, rcC, extra, hasLogicalEnd) :
      rcA \in BoolClasses, rcC \in BoolClasses,
      extra \in {"none", "v1_before", "v1_after"}, hasLogicalEnd \in BOOLEAN}
  \cup
  {BoolLoopIf(rcA, rcC, rcX, hasLogicalEnd) :
      rcA \in BoolClasses, rcC \in BoolClasses, rcX \in BoolClasses,
      hasLogicalEnd \in BOOLEAN}

BoolInit ==
  /\ DivIdle /\ LiveIdle /\ SpillIdle /\ RaIdle /\ AsmIdle /\ GrIdle /\ NuIdle
  /\ bprog \in BoolPrograms
  /\ borig = bprog
  /\ bblock = 1
  /\ bpc = "run"

\* one iteration of the loop of lower_bool_phis over program->blocks
BoolLowerBlock ==
  /\ bpc = "run"
  /\ bblock <= bprog.nblocks
  /\ bprog' = lower_block(bprog, bblock)
  /\ bblock' = bblock + 1
  /\ UNCHANGED <<borig, bpc>>
  /\ UNCHANGED <<divVars, liveVars, spillVars, raVars, asmVars, grVars, nuVars>>

\* the loop is over
BoolReturn ==
  /\ bpc = "run"
  /\ bblock > bprog.nblocks
  /\ bpc' = "done"
  /\ UNCHANGED <<bprog, borig, bblock>>
  /\ UNCHANGED <<divVars, liveVars, spillVars, raVars, asmVars, grVars, nuVars>>

BoolNext == BoolLowerBlock \/ BoolReturn

SpecBool == BoolInit /\ [][BoolNext]_vars

\* the loop of lower_bool_phis is not abandoned half way
SpecBoolFair == SpecBool /\ WF_vars(BoolNext)


\* ---- programs with a given register demand

\* the sizes of the register classes: s1 s2 s3 s4 s8 s16, v1 v2 v3 v4 v6
SgprSizes == {1, 2, 3, 4, 8, 16}

VgprSizes == {1, 2, 3, 4, 6}

\* n dwords as a sequence of class sizes, the largest first
RECURSIVE Split(_, _)
Split(n, sizes) ==
  IF n = 0 THEN <<>>
  ELSE With(CHOOSE c \in sizes : c <= n /\ \A d \in sizes : d <= n => d <= c,
            LAMBDA c : <<c>> \o Split(n - c, sizes))

\* the demands of the programs: the vector demands 4k and 4k + 1 and the
\* scalar demands that, with the two dwords of VCC, are 8k and 8k + 1, up
\* to these k; and the scalar demands around the largest addressable sgpr
MaxVgprQuads == 65

MaxSgprOcts == 14

VgprDemands == {4 * k + d : k \in 0..MaxVgprQuads, d \in {0, 1}}

SgprDemands ==
  {0} \cup {8 * k - 2 + d : k \in 1..MaxSgprOcts, d \in {0, 1}}
      \cup {max_addressible_sgpr(g) - 2 + d : g \in BOOLEAN, d \in {0, 1}}

\* one block: every temporary is defined by a move of a constant, one
\* instruction reads them all.  The temporaries are ns scalar and nv vector
\* dwords.
ProgramDemand(ns, nv, ge_vi) ==
  With(Split(ns, SgprSizes), LAMBDA ss :
  With(Split(nv, VgprSizes), LAMBDA vs :
    [nblocks |-> 1,
     rc |-> [i \in 1..Len(ss) |-> RC("sgpr", ss[i], TRUE)]
            \o [i \in 1..Len(vs) |-> RC("vgpr", vs[i], FALSE)],
     ge_vi |-> ge_vi,
     logical_predecessors |-> << <<>> >>,
     linear_predecessors |-> << <<>> >>,
     blocks |-> <<
       [i \in 1..(Len(ss) + Len(vs)) |->
          LInstr(IF i <= Len(ss) THEN "s_mov_b32" ELSE "v_mov_b32", <<i>>, <<0>>)]
       \o <<LInstr("exp", <<>>, [i \in 1..(Len(ss) + Len(vs)) |-> i]),
            LInstr("s_endpgm", <<>>, <<>>)>> >>]))

DemandPrograms ==
  {ProgramDemand(ns, nv, ge_vi) :
     ns \in SgprDemands, nv \in VgprDemands, ge_vi \in BOOLEAN}

\* live_var_analysis<true> on a program of DemandPrograms
WavesInit ==
  /\ DivIdle /\ BoolIdle /\ SpillIdle /\ RaIdle /\ AsmIdle /\ GrIdle /\ NuIdle
  /\ lprog \in DemandPrograms
  /\ live_out = [b \in 1..lprog.nblocks |-> {}]
  /\ lworklist = 1..lprog.nblocks
  /\ register_demand = [b \in 1..lprog.nblocks |-> <<>>]
  /\ block_demand = [b \in 1..lprog.nblocks |-> <<0, 0>>]
  /\ prog_demand = <<0, 0>>
  /\ waves = <<0, 0, 0>>
  /\ lpc = "run"

SpecWaves == WavesInit /\ [][LiveNext]_vars
(***************************************************************************)
(* The spiller (aco_spill).  spill_ctx keeps, per block, the variables     *)
(* spilled at its entry and at its exit (std::map<Temp, uint32_t>), the    *)
(* renames of reloaded variables (std::map<Temp, Temp>), and per spill id  *)
(* its register class and the set of spill ids it interferes with.  Maps   *)
(* are sets of <<key, value>> pairs here, iterated in the order of         *)
(* Temp::operator< (the temp id).  Spill ids are numbered from 1.          *)
(***************************************************************************)

Temp(id, rc) == [id |-> id, rc |-> rc]

\* Temp(): id 0
NoTemp == Temp(0, rc_b)

\* std::map<Temp, T>::find(k) != end()
Has(m, k) == \E e \in m : e[1].id = k.id

\* std::map<Temp, T>::operator[] on a present key
Get(m, k) == (CHOOSE e \in m : e[1].id = k.id)[2]

\* m[k] = v
Put(m, k, v) == {e \in m : e[1].id # k.id} \cup {<<k, v>>}

\* m.erase(k)
Erase(m, k) == {e \in m : e[1].id # k.id}

\* the pairs of a std::map in iteration order
RECURSIVE InOrder(_)
InOrder(m) ==
  IF m = {} THEN <<>>
  ELSE With(CHOOSE e \in m : \A f \in m : e[1].id <= f[1].id,
            LAMBDA e : <<e>> \o InOrder(m \ {e}))

\* spill_ctx::allocate_spill_id: the new id is the length of interferences
allocate_spill_id(ctx, rc) ==
  [ctx EXCEPT !.interferences = Append(@, [rc |-> rc, ids |-> {}])]

\* ctx.interferences[a].second.emplace(b); ctx.interferences[b].second.emplace(a)
\* for every b of a set of spill ids
add_interferences(ctx, a, others) ==
  [ctx EXCEPT !.interferences =
     [i \in DOMAIN @ |->
        IF i = a /\ i \in others THEN [@[i] EXCEPT !.ids = @ \cup others \cup {a}]
        ELSE IF i = a THEN [@[i] EXCEPT !.ids = @ \cup others]
        ELSE IF i \in others THEN [@[i] EXCEPT !.ids = @ \cup {a}]
        ELSE @[i]]]

\* ctx.affinities.emplace_back(a, b)
add_affinity(ctx, a, b) == [ctx EXCEPT !.affinities = Append(@, <<a, b>>)]

p_spill(operand, spill_id) ==
  BInstr("p_spill", "PSEUDO", <<operand, ConstOp(spill_id)>>, <<>>)

p_reload(spill_id, new_name) ==
  BInstr("p_reload", "PSEUDO", <<ConstOp(spill_id)>>,
         <<BDef(new_name.id, new_name.rc, "none")>>)

\* idx = size; do { assert(idx != 0); idx--; } while (logical && opcode != p_logical_end)
\* as a position from 1; 0 when the assertion fails
pred_insert_idx(instrs, logical) ==
  IF ~logical THEN Len(instrs)
  ELSE IF \E k \in 1..Len(instrs) : instrs[k].opcode = "p_logical_end"
       THEN CHOOSE k \in 1..Len(instrs) :
              /\ instrs[k].opcode = "p_logical_end"
              /\ \A j \in (k+1)..Len(instrs) : instrs[j].opcode # "p_logical_end"
       ELSE 0

\* preds[i]->instructions.insert(it, instr)
insert_at_pred_end(p, pred, logical, instr) ==
  With(pred_insert_idx(p.blocks[pred], logical), LAMBDA idx :
    IF idx = 0 THEN [p EXCEPT !.assert_failed = TRUE]
    ELSE [p EXCEPT !.blocks[pred] = InsertAt(@, idx, instr)])

\* the logical predecessors of a vgpr or of a p_phi, else the linear ones
preds_of(p, b, logical) ==
  IF logical THEN p.logical_predecessors[b] ELSE p.linear_predecessors[b]

\* rename if necessary: var = renames[block_idx][var], and the rename is erased
renamed_var(ctx, b, var) ==
  IF Has(ctx.renames[b], var) THEN Get(ctx.renames[b], var) ELSE var

\* add_coupling_code 623-690: operand i of a spilled phi
couple_spilled_phi_operand(st, b, phi, i) ==
  LET logical == phi.opcode = "p_phi"
      pred == preds_of(st.p, b, logical)[i]
      def == phi.definitions[1]
      def_spill_id == Get(st.ctx.spills_entry[b], def)
      op == phi.operands[i]
      exit == st.ctx.spills_exit[pred]
      spill_id == Len(st.ctx.interferences) + 1
  IN IF op.kind = "const" THEN
       [p |-> insert_at_pred_end(st.p, pred, logical, p_spill(op, spill_id)),
        ctx |-> add_affinity(
                  add_interferences(allocate_spill_id(st.ctx, def.rc),
                                    def_spill_id, {e[2] : e \in exit}),
                  def_spill_id, spill_id)]
     ELSE IF op.kind # "temp" THEN st
     ELSE With(add_interferences(st.ctx, def_spill_id,
                                 {e[2] : e \in {f \in exit : f[1].id # op.id}}),
            LAMBDA ctx1 :
              IF Has(exit, op) THEN
                [p |-> st.p,
                 ctx |-> IF Get(exit, op) # def_spill_id
                         THEN add_affinity(ctx1, def_spill_id, Get(exit, op))
                         ELSE ctx1]
              ELSE
                [p |-> insert_at_pred_end(st.p, pred, logical,
                          p_spill(TempOp(renamed_var(ctx1, b, op).id,
                                         renamed_var(ctx1, b, op).rc), spill_id)),
                 ctx |-> [add_affinity(allocate_spill_id(ctx1, def.rc),
                                       def_spill_id, spill_id)
                            EXCEPT !.renames[b] = Erase(@, op),
                                   !.spills_exit[pred] = Put(@, Temp(op.id, op.rc), spill_id)]])

RECURSIVE couple_spilled_phi(_, _, _, _)
couple_spilled_phi(st, b, phi, i) ==
  IF i > Len(phi.operands) THEN st
  ELSE With(couple_spilled_phi_operand(st, b, phi, i),
            LAMBDA st1 : couple_spilled_phi(st1, b, phi, i + 1))

\* add_coupling_code 609-692: the phis of the block, in order; the phis that
\* are not spilled are moved to st.instructions
RECURSIVE couple_phis(_, _, _)
couple_phis(st, b, k) ==
  IF k > Len(st.p.blocks[b]) \/ ~is_phi(st.p.blocks[b][k]) THEN st
  ELSE With(st.p.blocks[b][k], LAMBDA phi :
         With(IF ~Has(st.ctx.spills_entry[b], phi.definitions[1])
              THEN [st EXCEPT !.instructions = Append(@, phi)]
              ELSE With(couple_spilled_phi([p |-> st.p, ctx |-> st.ctx], b, phi, 1),
                        LAMBDA st1 : [st EXCEPT !.p = st1.p, !.ctx = st1.ctx]),
              LAMBDA st2 : couple_phis(st2, b, k + 1)))

\* add_coupling_code 699-739: a variable spilled at the entry of the block,
\* at one predecessor
couple_spilled_var_pred(st, b, pair, pred) ==
  LET var == pair[1]
      id == pair[2]
      logical == var.rc.type = "vgpr"
      exit == st.ctx.spills_exit[pred]
  IN With(add_interferences(st.ctx, id,
                            {e[2] : e \in {f \in exit : f[1].id # var.id}}),
       LAMBDA ctx1 :
         IF Has(exit, var) THEN
           [p |-> st.p,
            ctx |-> IF Get(exit, var) # id
                    THEN add_affinity(ctx1, id, Get(exit, var)) ELSE ctx1]
         ELSE IF var \notin ctx1.next_use_distances_end[pred] THEN
           [p |-> st.p, ctx |-> ctx1]
         ELSE
           [p |-> insert_at_pred_end(st.p, pred, logical,
                     p_spill(TempOp(renamed_var(ctx1, b, var).id,
                                    renamed_var(ctx1, b, var).rc), id)),
            ctx |-> [ctx1 EXCEPT !.renames[b] = Erase(@, var),
                                 !.spills_exit[pred] = Put(@, var, id)]])

RECURSIVE couple_spilled_var(_, _, _, _)
couple_spilled_var(st, b, pair, preds) ==
  IF preds = <<>> THEN st
  ELSE With(couple_spilled_var_pred(st, b, pair, Head(preds)),
            LAMBDA st1 : couple_spilled_var(st1, b, pair, Tail(preds)))

\* add_coupling_code 696-741: every pair of spills_entry[block_idx]
RECURSIVE couple_spilled_vars(_, _, _)
couple_spilled_vars(st, b, pairs) ==
  IF pairs = <<>> THEN st
  ELSE With(couple_spilled_var(st, b, Head(pairs),
                preds_of(st.p, b, Head(pairs)[1].rc.type = "vgpr")),
            LAMBDA st1 : couple_spilled_vars(st1, b, Tail(pairs)))

\* program->allocateId()
allocateId(p) == [p EXCEPT !.allocationID = @ + 1]

\* reload at the end of a predecessor (766-778 and 803-818)
reload_at_pred_end(st, pred, logical, var) ==
  With(Temp(st.p.allocationID, var.rc), LAMBDA new_name :
    [p |-> insert_at_pred_end(allocateId(st.p), pred, logical,
              p_reload(Get(st.ctx.spills_exit[pred], var), new_name)),
     ctx |-> [st.ctx EXCEPT !.spills_exit[pred] = Erase(@, var),
                            !.renames[pred] = Put(@, var, new_name)]])

\* add_coupling_code 750-779: operand i of phi k of the phis that are kept
couple_kept_phi_operand(st, b, k, i) ==
  LET phi == st.instructions[k]
      logical == phi.opcode = "p_phi"
      pred == preds_of(st.p, b, logical)[i]
      op == phi.operands[i]
      var == Temp(op.id, op.rc)
  IN IF op.kind # "temp" THEN st
     ELSE IF ~Has(st.ctx.spills_exit[pred], var) THEN
       IF Has(st.ctx.renames[pred], var)
       THEN [st EXCEPT !.instructions[k].operands[i] =
                          TempOp(Get(st.ctx.renames[pred], var).id,
                                 Get(st.ctx.renames[pred], var).rc)]
       ELSE st
     ELSE With(reload_at_pred_end([p |-> st.p, ctx |-> st.ctx], pred, logical, var),
               LAMBDA st1 : [st EXCEPT !.p = st1.p, !.ctx = st1.ctx])

\* add_coupling_code 744-780, phi by phi and operand by operand
RECURSIVE couple_kept_phis(_, _, _, _)
couple_kept_phis(st, b, k, i) ==
  IF k > Len(st.instructions) THEN st
  ELSE IF i > Len(st.instructions[k].operands) THEN couple_kept_phis(st, b, k + 1, 1)
  ELSE With(couple_kept_phi_operand(st, b, k, i),
            LAMBDA st1 : couple_kept_phis(st1, b, k, i + 1))

\* add_coupling_code 798-818: reload a live variable at the predecessors
\* where it is spilled
RECURSIVE reload_live_var(_, _, _)
reload_live_var(st, var, preds) ==
  IF preds = <<>> THEN st
  ELSE IF ~Has(st.ctx.spills_exit[Head(preds)], var)
       THEN reload_live_var(st, var, Tail(preds))
       ELSE With(reload_at_pred_end(st, Head(preds), var.rc.type = "vgpr", var),
                 LAMBDA st1 : reload_live_var(st1, var, Tail(preds)))

\* the name of a variable at the end of a predecessor
name_at(ctx, pred, var) ==
  IF Has(ctx.renames[pred], var) THEN Get(ctx.renames[pred], var) ELSE var

\* add_coupling_code 821-840: <<rename, is_same>> after the loop over preds
RECURSIVE check_same(_, _, _, _)
check_same(ctx, var, preds, rename) ==
  IF preds = <<>> THEN <<rename, TRUE>>
  ELSE IF rename.id = 0
       THEN check_same(ctx, var, Tail(preds), name_at(ctx, Head(preds), var))
       ELSE IF rename.id = name_at(ctx, Head(preds), var).id
            THEN check_same(ctx, var, Tail(preds), rename)
            ELSE <<rename, FALSE>>

\* add_coupling_code 842-859: the phi of a variable renamed differently in
\* the predecessors
new_phi(ctx, b, var, preds, rename) ==
  BInstr(IF var.rc.type = "vgpr" THEN "p_phi" ELSE "p_linear_phi", "PSEUDO",
         [i \in 1..Len(preds) |->
            IF Has(ctx.renames[preds[i]], var)
            THEN TempOp(Get(ctx.renames[preds[i]], var).id,
                        Get(ctx.renames[preds[i]], var).rc)
            ELSE IF preds[i] >= b THEN TempOp(rename.id, rename.rc)
            ELSE TempOp(var.id, var.rc)],
         <<BDef(rename.id, rename.rc, "none")>>)

\* add_coupling_code 786-863: one live variable of next_use_distances_start
couple_live_var(st, b, var) ==
  LET preds == preds_of(st.p, b, var.rc.type = "vgpr")
  IN IF Has(st.ctx.spills_entry[b], var) THEN st
     ELSE IF \E i \in 1..Len(preds) : var \notin st.ctx.next_use_distances_end[preds[i]]
     THEN st
     ELSE With(reload_live_var([p |-> st.p, ctx |-> st.ctx], var, preds), LAMBDA st1 :
          With(check_same(st1.ctx, var, preds, NoTemp), LAMBDA same :
            IF ~same[2] THEN
              With(Temp(st1.p.allocationID, var.rc), LAMBDA rename :
                [p |-> allocateId(st1.p),
                 ctx |-> [st1.ctx EXCEPT !.renames[b] = Put(@, var, rename)],
                 instructions |-> Append(st.instructions,
                                         new_phi(st1.ctx, b, var, preds, rename))])
            ELSE
              [p |-> st1.p,
               ctx |-> IF same[1].id = 0 \/ same[1].id = var.id THEN st1.ctx
                       ELSE [st1.ctx EXCEPT !.renames[b] = Put(@, var, same[1])],
               instructions |-> st.instructions]))

RECURSIVE couple_live_vars(_, _, _)
couple_live_vars(st, b, live) ==
  IF live = <<>> THEN st
  ELSE With(couple_live_var(st, b, Head(live)[1]),
            LAMBDA st1 : couple_live_vars(st1, b, Tail(live)))

\* the first instruction of the block that was neither moved nor reset
RECURSIVE first_kept(_, _)
first_kept(instrs, k) ==
  IF k <= Len(instrs) /\ is_phi(instrs[k]) THEN first_kept(instrs, k + 1) ELSE k

\* add_coupling_code for a block with several linear predecessors (605-875)
add_coupling_code(p, ctx, b) ==
  With(couple_phis([p |-> p, ctx |-> ctx, instructions |-> <<>>], b, 1), LAMBDA a :
  With(couple_spilled_vars([p |-> a.p, ctx |-> a.ctx], b,
                           InOrder(a.ctx.spills_entry[b])), LAMBDA s :
  With(couple_kept_phis([p |-> s.p, ctx |-> s.ctx, instructions |-> a.instructions],
                        b, 1, 1), LAMBDA c :
  With(couple_live_vars(c, b,
         InOrder({<<v, 0>> : v \in c.ctx.next_use_distances_start[b]})), LAMBDA d :
    [p |-> [d.p EXCEPT !.blocks[b] =
              d.instructions \o SubSeq(@, first_kept(@, 1), Len(@))],
     ctx |-> d.ctx]))))

\* spill_block 1022-1027: the variables spilled at the entry of a block
\* interfere with each other
entry_interferences(ctx, b) ==
  [ctx EXCEPT !.interferences =
     [i \in DOMAIN @ |->
        IF \E x \in ctx.spills_entry[b] : x[2] = i
        THEN [@[i] EXCEPT !.ids = @ \cup ({y[2] : y \in ctx.spills_entry[b]} \ {i})]
        ELSE @[i]]]

\* init_live_in_vars 354-400, a block with one predecessor: the variables
\* spilled at the exit of the predecessor and live here stay spilled if
\* their next use is far enough or the demand of the block is too high;
\* keep is the set of temp ids these conditions select
init_live_in_branch(ctx, p, b, keep) ==
  [ctx EXCEPT !.spills_entry[b] =
     {pair \in ctx.spills_exit[p.linear_predecessors[b][1]] :
        pair[1] \in ctx.next_use_distances_start[b] /\ pair[1].id \in keep}]

\* a live variable spilled at the exit of some predecessor is spilled at the
\* entry of a merge block
merge_live_spills_any(ctx, p, b) ==
  {<<v, Get(ctx.spills_exit[
              CHOOSE pred \in Range(preds_of(p, b, v.rc.type = "vgpr")) :
                Has(ctx.spills_exit[pred], v)], v)>> :
     v \in {w \in ctx.next_use_distances_start[b] :
              \E i \in 1..Len(preds_of(p, b, w.rc.type = "vgpr")) :
                 Has(ctx.spills_exit[preds_of(p, b, w.rc.type = "vgpr")[i]], w)}}

\* init_live_in_vars 407-431: a live variable is spilled at the entry of a
\* merge block if it is spilled at the exit of all its predecessors, with
\* the spill id of the last one
merge_live_spills(ctx, p, b) ==
  {<<v, Get(ctx.spills_exit[preds_of(p, b, v.rc.type = "vgpr")
                              [Len(preds_of(p, b, v.rc.type = "vgpr"))]], v)>> :
     v \in {w \in ctx.next_use_distances_start[b] :
              \A i \in 1..Len(preds_of(p, b, w.rc.type = "vgpr")) :
                 LET pred == preds_of(p, b, w.rc.type = "vgpr")[i]
                 IN w \in ctx.next_use_distances_end[pred]
                    /\ Has(ctx.spills_exit[pred], w)}}

\* init_live_in_vars 407-425 and 441-447: the variables and phi definitions
\* spilled at some predecessor
partial_spills(ctx, p, b) ==
  {w \in ctx.next_use_distances_start[b] :
     LET preds == preds_of(p, b, w.rc.type = "vgpr")
     IN \E i \in 1..Len(preds) :
          /\ \A j \in 1..i : w \in ctx.next_use_distances_end[preds[j]]
          /\ Has(ctx.spills_exit[preds[i]], w)}
  \cup
  {Temp(phi.definitions[1].id, phi.definitions[1].rc) :
     phi \in {q \in {p.blocks[b][k] : k \in 1..(first_kept(p.blocks[b], 1) - 1)} :
                \E i \in 1..Len(q.operands) :
                   /\ q.operands[i].kind = "temp"
                   /\ Has(ctx.spills_exit[preds_of(p, b, q.opcode = "p_phi")[i]],
                          q.operands[i])}}

\* init_live_in_vars 434-455: a phi is spilled if all its operands are
\* temporaries spilled at the predecessors; it gets a new spill id
RECURSIVE merge_phi_spills(_, _, _, _)
merge_phi_spills(ctx, p, b, k) ==
  IF k > Len(p.blocks[b]) \/ ~is_phi(p.blocks[b][k]) THEN ctx
  ELSE With(p.blocks[b][k], LAMBDA phi :
         IF \A i \in 1..Len(phi.operands) :
               /\ phi.operands[i].kind = "temp"
               /\ Has(ctx.spills_exit[preds_of(p, b, phi.opcode = "p_phi")[i]],
                      phi.operands[i])
         THEN With([allocate_spill_id(ctx, phi.definitions[1].rc)
                      EXCEPT !.spills_entry[b] =
                        Put(@, Temp(phi.definitions[1].id, phi.definitions[1].rc),
                            Len(ctx.interferences) + 1)],
                   LAMBDA ctx1 : merge_phi_spills(ctx1, p, b, k + 1))
         ELSE merge_phi_spills(ctx, p, b, k + 1))

\* init_live_in_vars 473-497: while the register pressure is too high, a
\* partially spilled sgpr with a next use distance above 0 is spilled with
\* a new id; to_spill is the sequence of variables the loop picks
RECURSIVE spill_partial(_, _, _)
spill_partial(ctx, b, to_spill) ==
  IF to_spill = <<>> THEN ctx
  ELSE With([allocate_spill_id(ctx, Head(to_spill).rc)
               EXCEPT !.spills_entry[b] =
                        Put(@, Head(to_spill), Len(ctx.interferences) + 1)],
            LAMBDA ctx1 : spill_partial(ctx1, b, Tail(to_spill)))

\* the variables the pressure loop can pick: partially spilled, not yet
\* spilled at the entry, and with an entry in next_use_distances_start
\* (operator[] gives distance 0 to the others, which is never picked)
partial_candidates(ctx, p, b) ==
  {w \in partial_spills(ctx, p, b) :
     /\ ~Has(ctx.spills_entry[b], w)
     /\ w.rc.type = "sgpr"
     /\ w \in ctx.next_use_distances_start[b]}

\* init_live_in_vars 402-529 for a merge block; partial says that the
\* register pressure at the first instruction is too high
init_live_in_merge(ctx, p, b, partial) ==
  With(merge_phi_spills([ctx EXCEPT !.spills_entry[b] = merge_live_spills(ctx, p, b)],
                        p, b, 1),
       LAMBDA ctx1 :
         IF partial
         THEN spill_partial(ctx1, b,
                [k \in 1..Cardinality(partial_candidates(ctx1, p, b)) |->
                   InOrder({<<w, 0>> : w \in partial_candidates(ctx1, p, b)})[k][1]])
         ELSE ctx1)

\* add_coupling_code 545-593, a block with one predecessor: one live variable
couple_branch_var(st, b, pred, live) ==
  IF Has(st.ctx.spills_entry[b], live) THEN st
  ELSE IF ~Has(st.ctx.spills_exit[pred], live) THEN
    IF Has(st.ctx.renames[pred], live) /\ ~Has(st.ctx.renames[b], live)
    THEN [st EXCEPT !.ctx.renames[b] = Put(@, live, Get(st.ctx.renames[pred], live))]
    ELSE st
  ELSE With(Temp(st.p.allocationID, live.rc), LAMBDA new_name :
         [p |-> allocateId(st.p),
          ctx |-> [st.ctx EXCEPT !.renames[b] = Put(@, live, new_name)],
          instructions |-> Append(st.instructions,
                             p_reload(Get(st.ctx.spills_exit[pred], live), new_name))])

RECURSIVE couple_branch_vars(_, _, _)
couple_branch_vars(st, b, live) ==
  IF live = <<>> THEN st
  ELSE With(couple_branch_var(st, b,
               preds_of(st.p, b, Head(live)[1].rc.type = "vgpr")[1], Head(live)[1]),
            LAMBDA st1 : couple_branch_vars(st1, b, Tail(live)))

\* add_coupling_code 540-603: the vgprs if there is one logical predecessor,
\* then the sgprs; the reloads go to the start of the block
couple_branch_block(p, ctx, b) ==
  With(couple_branch_vars([p |-> p, ctx |-> ctx, instructions |-> <<>>], b,
         InOrder({<<v, 0>> : v \in {w \in ctx.next_use_distances_start[b] :
                     w.rc.type = "vgpr" /\ Len(p.logical_predecessors[b]) = 1}})),
       LAMBDA v :
  With(couple_branch_vars(v, b,
         InOrder({<<w, 0>> : w \in {x \in ctx.next_use_distances_start[b] :
                     x.rc.type # "vgpr"}})),
       LAMBDA s :
    [p |-> [s.p EXCEPT !.blocks[b] = s.instructions \o @], ctx |-> s.ctx]))

\* process_block 897-915: operand i of the current instruction; an operand in
\* a register is renamed, a spilled one is reloaded to a new temporary
reload_operand(st, b, i) ==
  LET op == st.instr.operands[i]
  IN IF op.kind # "temp" THEN st
     ELSE IF ~Has(st.current_spills, op) THEN
       IF Has(st.ctx.renames[b], op)
       THEN [st EXCEPT !.instr.operands[i] =
               TempOp(Get(st.ctx.renames[b], op).id, Get(st.ctx.renames[b], op).rc)]
       ELSE st
     ELSE With(Temp(st.p.allocationID, op.rc), LAMBDA new_tmp :
            [st EXCEPT !.p = allocateId(@),
                       !.ctx.renames[b] = Put(@, Temp(op.id, op.rc), new_tmp),
                       !.reloads = Append(@, p_reload(Get(st.current_spills, op), new_tmp)),
                       !.current_spills = Erase(@, op),
                       !.instr.operands[i] = TempOp(new_tmp.id, new_tmp.rc)])

RECURSIVE reload_operands(_, _, _)
reload_operands(st, b, i) ==
  IF i > Len(st.instr.operands) THEN st
  ELSE With(reload_operand(st, b, i), LAMBDA st1 : reload_operands(st1, b, i + 1))

\* process_block 943-993: the variable picked by the pressure loop (not in
\* current_spills, not in spills_exit of the block) gets a new spill id that
\* interferes with the ids of current_spills
spill_variable(st, b, to_spill) ==
  IF Has(st.current_spills, to_spill) \/ Has(st.ctx.spills_exit[b], to_spill) THEN st
  ELSE With(Len(st.ctx.interferences) + 1, LAMBDA spill_id :
         [st EXCEPT !.ctx = add_interferences(allocate_spill_id(@, to_spill.rc), spill_id,
                                              {e[2] : e \in st.current_spills}),
                    !.current_spills = Put(@, to_spill, spill_id),
                    !.instructions = Append(@,
                       p_spill(TempOp(renamed_var(st.ctx, b, to_spill).id,
                                      renamed_var(st.ctx, b, to_spill).rc), spill_id))])

RECURSIVE spill_variables(_, _, _)
spill_variables(st, b, to_spill) ==
  IF to_spill = <<>> THEN st
  ELSE With(spill_variable(st, b, Head(to_spill)),
            LAMBDA st1 : spill_variables(st1, b, Tail(to_spill)))

\* the variables the pressure loop of 943-994 spills in front of an
\* instruction of the block, as the register demand decides
spills_before(plan, instr) ==
  IF \E e \in plan.spills : e[1] = instr
  THEN (CHOOSE e \in plan.spills : e[1] = instr)[2] ELSE <<>>

\* process_block 877-1010, from instruction idx of the block on
RECURSIVE process_block(_, _, _, _)
process_block(st, b, plan, idx) ==
  IF idx > Len(st.p.blocks[b])
  THEN [p |-> [st.p EXCEPT !.blocks[b] = st.instructions],
        ctx |-> [st.ctx EXCEPT !.spills_exit[b] =
                   @ \cup {e \in st.current_spills : ~Has(@, e[1])}]]
  ELSE With(st.p.blocks[b][idx], LAMBDA instr :
       IF is_phi(instr) /\ idx < first_kept(st.p.blocks[b], 1)
       THEN With([st EXCEPT !.instructions = Append(@, instr)],
                 LAMBDA st1 : process_block(st1, b, plan, idx + 1))
       ELSE
       With(reload_operands([st EXCEPT !.instr = instr, !.reloads = <<>>], b, 1),
            LAMBDA r :
       With(spill_variables(r, b, spills_before(plan, instr)), LAMBDA s :
       With([s EXCEPT !.instructions = @ \o s.reloads \o <<s.instr>>],
            LAMBDA st1 : process_block(st1, b, plan, idx + 1)))))

\* the pairs of a map whose variable is an operand of an instruction of the
\* block after its phis: their next use is in this block
used_in_block(m, instrs) ==
  {e \in m : \E k \in first_kept(instrs, 1)..Len(instrs) :
               \E i \in 1..Len(instrs[k].operands) :
                  instrs[k].operands[i].kind = "temp" /\ instrs[k].operands[i].id = e[1].id}

\* process_block is called (1046-1051)
must_process(st, b, plan) ==
  \/ used_in_block(st.ctx.spills_entry[b], st.p.blocks[b]) # {}
  \/ plan.spills # {}
  \/ st.ctx.renames[b] # {}

\* spill_block 1036-1051: the spills that are not needed in the block go to
\* spills_exit, the block is processed with the others
finish_block(st, b, plan) ==
  With([st.ctx EXCEPT !.spills_exit[b] =
          @ \cup {e \in st.ctx.spills_entry[b] \ used_in_block(st.ctx.spills_entry[b], st.p.blocks[b]) :
                    ~Has(@, e[1])}],
       LAMBDA ctx1 :
         IF must_process(st, b, plan)
         THEN process_block(
                [p |-> st.p, ctx |-> ctx1,
                 current_spills |-> used_in_block(st.ctx.spills_entry[b], st.p.blocks[b]),
                 instructions |-> <<>>, reloads |-> <<>>, instr |-> LogicalStart],
                b, plan, 1)
         ELSE [p |-> st.p, ctx |-> ctx1])

\* spill_block 1012-1051 for a block that is not in a loop; p.pressure[b]
\* holds what the register demand and the next use distances decide
spill_block(p, ctx, b) ==
  LET plan == p.pressure[b]
      npreds == Len(p.linear_predecessors[b])
  IN With(entry_interferences(
            IF npreds = 0 THEN ctx
            ELSE IF npreds = 1 THEN init_live_in_branch(ctx, p, b, plan.keep)
            ELSE init_live_in_merge(ctx, p, b, plan.partial), b),
          LAMBDA ctx1 :
     With(IF npreds = 0 THEN [p |-> p, ctx |-> ctx1]
          ELSE IF npreds = 1 THEN couple_branch_block(p, ctx1, b)
          ELSE add_coupling_code(p, ctx1, b),
          LAMBDA st : finish_block(st, b, plan)))

\* assign_spill_slots 1136-1140: the interferences of two affine spill ids
\* are merged into both
RECURSIVE merge_affinities(_, _)
merge_affinities(interferences, affinities) ==
  IF affinities = <<>> THEN interferences
  ELSE With(Head(affinities), LAMBDA pair :
       With([interferences EXCEPT ![pair[1]].ids = @ \cup interferences[pair[2]].ids],
            LAMBDA i1 :
       With([i1 EXCEPT ![pair[2]].ids = @ \cup i1[pair[1]].ids],
            LAMBDA i2 : merge_affinities(i2, Tail(affinities)))))

\* the assertions of 1137 and 1141-1143 hold
affinities_ok(interferences, affinities) ==
  /\ \A k \in 1..Len(affinities) : affinities[k][1] # affinities[k][2]
  /\ \A i \in 1..Len(interferences) : i \notin interferences[i].ids

\* the lanes of one linear vgpr
LanesPerVgpr == 64

\* spill_slot_interferences[i], a vector indexed from 0
slot_interferences(g, i) ==
  IF i + 1 <= Len(g.spill_slot_interferences)
  THEN g.spill_slot_interferences[i + 1] ELSE {}

\* the dwords slot_idx .. slot_idx + size - 1 at which the check loop of
\* 1160-1167 (sgpr) or 1197-1205 (vgpr) finds an interference
interfering_slots(g, interferences, id, bank) ==
  {i \in g.slot_idx..(g.slot_idx + interferences[id].rc.size - 1) :
     \/ id \in slot_interferences(g, i)
     \/ bank = "vgpr" /\ i \div LanesPerVgpr # g.slot_idx \div LanesPerVgpr}

\* the vector after emplace_back for every index the check loop reached
grown(g, last) ==
  [k \in 1..Max(Len(g.spill_slot_interferences), last + 1) |->
     slot_interferences(g, k - 1)]

\* one iteration of the for loop over the spill ids (1153-1179, 1190-1216)
assign_id(g, interferences, id, bank) ==
  IF id \in g.is_assigned \/ interferences[id].rc.type # bank THEN g
  ELSE With(interfering_slots(g, interferences, id, bank), LAMBDA hit :
         IF hit # {}
         THEN [g EXCEPT !.spill_slot_interferences =
                          grown(g, CHOOSE i \in hit : \A j \in hit : i <= j),
                        !.done = FALSE]
         ELSE With(g.slot_idx + interferences[id].rc.size - 1, LAMBDA last :
                [g EXCEPT !.spill_slot_interferences =
                            [k \in 1..Max(Len(@), last + 1) |->
                               IF k - 1 \in g.slot_idx..last
                               THEN slot_interferences(g, k - 1) \cup interferences[id].ids
                               ELSE slot_interferences(g, k - 1)],
                          !.slot = Put(@, [id |-> id], g.slot_idx),
                          !.is_assigned = @ \cup {id}]))

RECURSIVE assign_ids(_, _, _, _)
assign_ids(g, interferences, id, bank) ==
  IF id > Len(interferences) THEN g
  ELSE With(assign_id(g, interferences, id, bank),
            LAMBDA g1 : assign_ids(g1, interferences, id + 1, bank))

\* the while (!done) loop of one bank (1151-1181, 1187-1218)
RECURSIVE assign_bank(_, _, _)
assign_bank(g, interferences, bank) ==
  With(assign_ids([g EXCEPT !.done = TRUE], interferences, 1, bank), LAMBDA g1 :
    IF g1.done THEN [g1 EXCEPT !.slot_idx = @ + 1]
    ELSE With([g1 EXCEPT !.slot_idx = @ + 1],
              LAMBDA g2 : assign_bank(g2, interferences, bank)))

\* assign_spill_slots 1130-1224: sgpr_slot and vgpr_slot map a spill id to
\* its first dword
assign_slots(ctx) ==
  With(merge_affinities(ctx.interferences, ctx.affinities), LAMBDA merged :
  With(assign_bank([slot_idx |-> 0, done |-> FALSE, is_assigned |-> {},
                    spill_slot_interferences |-> <<>>, slot |-> {}],
                   merged, "sgpr"), LAMBDA s :
  With(assign_bank([s EXCEPT !.slot_idx = 0, !.done = FALSE, !.slot = {}],
                   merged, "vgpr"), LAMBDA v :
    [interferences |-> merged,
     assert_failed |-> ~affinities_ok(merged, ctx.affinities),
     sgpr_slot |-> s.slot,
     vgpr_slot |-> v.slot,
     spill_slot_interferences |-> v.spill_slot_interferences,
     vgpr_spill_temps |->
        (Len(v.spill_slot_interferences) + LanesPerVgpr - 1) \div LanesPerVgpr])))

\* sgpr_slot[id] / vgpr_slot[id]
slot_of(m, id) == Get(m, [id |-> id])

\* the linear vgpr and the lane of a spill slot (1277-1300, 1313-1337)
linear_vgpr_of(spill_slot) == spill_slot \div LanesPerVgpr

lane_of(spill_slot) == spill_slot % LanesPerVgpr

\* 1277-1293, 1313-1330: the linear vgpr of a slot is created on demand, by a
\* p_start_linear_vgpr in front of the instruction (out) or at the end of the
\* last top level block
ensure_linear_vgpr(rw, b, spill_slot) ==
  IF rw.vgpr_spill_temps[linear_vgpr_of(spill_slot) + 1] # NoTemp THEN rw
  ELSE With(Temp(rw.p.allocationID, v1_linear), LAMBDA linear_vgpr :
       With(BInstr("p_start_linear_vgpr", "PSEUDO", <<>>,
                   <<BDef(linear_vgpr.id, linear_vgpr.rc, "none")>>), LAMBDA create :
         IF rw.last_top_level_block_idx = b
         THEN [rw EXCEPT !.p = allocateId(@),
                         !.vgpr_spill_temps[linear_vgpr_of(spill_slot) + 1] = linear_vgpr,
                         !.out = Append(@, create)]
         ELSE [rw EXCEPT !.p = [allocateId(@) EXCEPT
                                  !.blocks[rw.last_top_level_block_idx] =
                                      InsertAt(@, Len(@), create),
                                  !.assert_failed =
                                      @ \/ ~(rw.last_top_level_block_idx < b)],
                         !.vgpr_spill_temps[linear_vgpr_of(spill_slot) + 1] = linear_vgpr]))

\* 1267-1343: one instruction of the block; a p_spill or p_reload of an sgpr
\* names the linear vgpr and the lane of its slot
rewrite_instr(rw, b, slots, instr) ==
  IF instr.opcode \notin {"p_spill", "p_reload"} THEN [rw EXCEPT !.out = Append(@, instr)]
  ELSE LET spill_id == IF instr.opcode = "p_spill" THEN instr.operands[2].val
                       ELSE instr.operands[1].val
       IN IF Has(slots.vgpr_slot, [id |-> spill_id]) \/ ~Has(slots.sgpr_slot, [id |-> spill_id])
          THEN [rw EXCEPT !.p.assert_failed = TRUE, !.out = Append(@, instr)]
          ELSE With(slot_of(slots.sgpr_slot, spill_id), LAMBDA spill_slot :
               With(ensure_linear_vgpr(rw, b, spill_slot), LAMBDA rw1 :
               With(TempOp(rw1.vgpr_spill_temps[linear_vgpr_of(spill_slot) + 1].id, v1_linear),
                    LAMBDA vgpr :
                 [rw1 EXCEPT !.out = Append(@,
                    IF instr.opcode = "p_spill"
                    THEN BInstr("p_spill", "PSEUDO",
                                <<vgpr, ConstOp(lane_of(spill_slot)), instr.operands[1]>>, <<>>)
                    ELSE BInstr("p_reload", "PSEUDO",
                                <<vgpr, ConstOp(lane_of(spill_slot))>>, instr.definitions))])))

RECURSIVE rewrite_instrs(_, _, _, _)
rewrite_instrs(rw, b, slots, idx) ==
  IF idx > Len(rw.p.blocks[b]) THEN [rw EXCEPT !.p.blocks[b] = rw.out, !.out = <<>>]
  ELSE With(rewrite_instr(rw, b, slots, rw.p.blocks[b][idx]),
            LAMBDA rw1 : rewrite_instrs(rw1, b, slots, idx + 1))

\* 1235-1258: at a top level block, a linear vgpr that no variable spilled
\* at the entry of the block uses is destroyed after the phis
destroy_linear_vgpr(rw, ctx, b, slots, i) ==
  IF rw.vgpr_spill_temps[i + 1] = NoTemp
     \/ \E pair \in ctx.spills_entry[b] :
           /\ Has(slots.sgpr_slot, [id |-> pair[2]])
           /\ linear_vgpr_of(slot_of(slots.sgpr_slot, pair[2])) = i
  THEN rw
  ELSE [rw EXCEPT !.p.blocks[b] =
                     InsertAt(@, first_kept(@, 1),
                       BInstr("p_end_linear_vgpr", "PSEUDO",
                              <<TempOp(rw.vgpr_spill_temps[i + 1].id, v1_linear)>>, <<>>)),
                  !.vgpr_spill_temps[i + 1] = NoTemp]

RECURSIVE destroy_linear_vgprs(_, _, _, _, _)
destroy_linear_vgprs(rw, ctx, b, slots, i) ==
  IF i >= Len(rw.vgpr_spill_temps) THEN rw
  ELSE With(destroy_linear_vgpr(rw, ctx, b, slots, i),
            LAMBDA rw1 : destroy_linear_vgprs(rw1, ctx, b, slots, i + 1))

\* the number of linear successors of a block
num_linear_successors(p, b) ==
  Cardinality({c \in 1..Len(p.blocks) :
                 \E i \in 1..Len(p.linear_predecessors[c]) : p.linear_predecessors[c][i] = b})

\* 1226-1350: the loop over the blocks (no loops in the program: every
\* loop_nest_depth is 0).  nesting_depth is unsigned and only compared with
\* 0, which the integers do as well as the integers modulo 2^32.
RECURSIVE rewrite_blocks(_, _, _, _)
rewrite_blocks(rw, ctx, slots, b) ==
  IF b > Len(rw.p.blocks) THEN rw.p
  ELSE With(IF Len(rw.p.linear_predecessors[b]) = 2
            THEN [rw EXCEPT !.nesting_depth = @ - 1] ELSE rw, LAMBDA rw1 :
       With(IF rw1.nesting_depth = 0
            THEN destroy_linear_vgprs([rw1 EXCEPT !.last_top_level_block_idx = b],
                                      ctx, b, slots, 0)
            ELSE rw1, LAMBDA rw2 :
       With(rewrite_instrs(rw2, b, slots, 1), LAMBDA rw3 :
       With(IF num_linear_successors(rw3.p, b) = 2
            THEN [rw3 EXCEPT !.nesting_depth = @ + 1] ELSE rw3,
            LAMBDA rw4 : rewrite_blocks(rw4, ctx, slots, b + 1)))))

\* assign_spill_slots 1130-1350
assign_spill_slots(p, ctx) ==
  With(assign_slots(ctx), LAMBDA slots :
    [slots |-> slots,
     p |-> rewrite_blocks(
             [p |-> [p EXCEPT !.assert_failed = @ \/ slots.assert_failed],
              vgpr_spill_temps |-> [i \in 1..slots.vgpr_spill_temps |-> NoTemp],
              nesting_depth |-> 0, last_top_level_block_idx |-> 1, out |-> <<>>],
             ctx, slots, 1)])

\* ---- the programs the spiller is run on

s4 == RC("sgpr", 4, TRUE)

s16 == RC("sgpr", 16, TRUE)

SDef(t) == BInstr("s_mov_b32", "SOP1", <<ConstOp(0)>>, <<BDef(t.id, t.rc, "none")>>)

SUse(t) == BInstr("s_cmp_eq_u32", "SOPC", <<TempOp(t.id, t.rc)>>, <<>>)

SPhi(d, operands) == BInstr("p_linear_phi", "PSEUDO", operands, <<BDef(d.id, d.rc, "none")>>)

SeqOf(F(_), n) == [k \in 1..n |-> F(k)]

SpillFirstFreeId == 30

\* the wide (descriptor) temporaries of a program
NumWide == 5

Wide(k) == Temp(10 + k, IF k = 1 THEN s4 ELSE s16)

\* spill_ctx::spill_ctx and compute_global_next_uses: nothing is spilled,
\* and the variables with a next use at the start and at the end of a block
EmptyCtx(nblocks, live_start, live_end) ==
  [interferences |-> <<>>, affinities |-> <<>>,
   spills_entry |-> [b \in 1..nblocks |-> {}],
   spills_exit |-> [b \in 1..nblocks |-> {}],
   renames |-> [b \in 1..nblocks |-> {}],
   next_use_distances_start |-> live_start,
   next_use_distances_end |-> live_end]

\* a uniform if: entry 1, then 2, else 3, merge 4.  X, Y and the wide
\* temporaries are defined in block 1 and used in block 4; Z is local to
\* block 2; O1 and O2 are defined in blocks 2 and 3 and merged by the phi
\* D1 of block 4 (constOp: the first operand is a constant); D2 is a phi of
\* two constants.  pressure[b] holds what the register demand decides.
SpillIf(rcX, rcD, constOp, nwide, pressure) ==
  LET X == Temp(1, rcX)
      Y == Temp(2, s1)
      Z == Temp(3, s1)
      O1 == Temp(4, rcD)
      O2 == Temp(5, rcD)
      D1 == Temp(6, rcD)
      D2 == Temp(7, s1)
      W == {Wide(k) : k \in 1..nwide}
  IN [allocationID |-> SpillFirstFreeId, assert_failed |-> FALSE,
      pressure |-> pressure,
      logical_predecessors |-> << <<>>, <<1>>, <<1>>, <<2, 3>> >>,
      linear_predecessors |-> << <<>>, <<1>>, <<1>>, <<2, 3>> >>,
      live_start |-> << {}, {X, Y} \cup W, {X, Y} \cup W, {X, Y, D1} \cup W >>,
      live_end |-> << {X, Y} \cup W,
                      {X, Y} \cup W \cup (IF constOp THEN {} ELSE {O1}),
                      {X, Y, O2} \cup W, {} >>,
      blocks |-> <<
        Body(<<SDef(X), SDef(Y)>> \o SeqOf(LAMBDA k : SDef(Wide(k)), nwide), TRUE, TRUE),
        Body(<<SDef(Z), SDef(O1), SUse(Z)>>, TRUE, TRUE),
        Body(<<SDef(O2)>>, TRUE, TRUE),
        <<SPhi(D1, <<IF constOp THEN ConstOp(0) ELSE TempOp(O1.id, O1.rc),
                     TempOp(O2.id, O2.rc)>>),
          SPhi(D2, <<ConstOp(0), ConstOp(1)>>)>>
          \o Body(<<SUse(X), SUse(Y), SUse(D1), SUse(D2)>>
                    \o SeqOf(LAMBDA k : SUse(Wide(k)), nwide), TRUE, FALSE) >>]

\* what the register demand decides in a block: the variables that stay
\* spilled at the entry (keep), whether partially spilled variables are
\* spilled at the entry of a merge block, and the variables spilled in
\* front of an instruction
Pressure(keep, partial, spills) == [keep |-> keep, partial |-> partial, spills |-> spills]

NoPressure == Pressure({}, FALSE, {})

\* the choices of the pressure loops for the blocks of SpillIf
EntrySpills(rcX, nwide) ==
  IF nwide > 0 THEN {{<<LogicalEnd, SeqOf(Wide, nwide)>>}}
  ELSE {{}, {<<LogicalEnd, <<Temp(1, rcX)>> >>},
        {<<LogicalEnd, <<Temp(1, rcX), Temp(2, s1)>> >>}}

ThenSpills(rcX, rcD, constOp) ==
  {{}, {<<SDef(Temp(4, rcD)), <<Temp(3, s1)>> >>},
   {<<SDef(Temp(4, rcD)), <<Temp(3, s1), Temp(1, rcX)>> >>},
   {<<SDef(Temp(4, rcD)), <<Temp(1, rcX)>> >>},
   {<<SDef(Temp(4, rcD)), <<Temp(2, s1)>> >>}}
  \cup (IF constOp THEN {} ELSE {{<<LogicalEnd, <<Temp(4, rcD)>> >>}})

ElseSpills(rcX, rcD) ==
  {{}, {<<LogicalEnd, <<Temp(1, rcX)>> >>}, {<<LogicalEnd, <<Temp(5, rcD)>> >>},
   {<<LogicalEnd, <<Temp(1, rcX), Temp(5, rcD)>> >>}}

\* every temp id of SpillIf
AllIds == 1..(10 + NumWide)

SpillProgramsOf(rcX, rcD, constOp) ==
  {SpillIf(rcX, rcD, constOp, 0,
           <<Pressure({}, FALSE, e1), Pressure(keep2, FALSE, e2),
             Pressure(keep3, FALSE, e3), Pressure({}, partial, {})>>) :
     keep2 \in {{}, AllIds}, keep3 \in {{}, AllIds}, e1 \in EntrySpills(rcX, 0),
     e2 \in ThenSpills(rcX, rcD, constOp), e3 \in ElseSpills(rcX, rcD),
     partial \in BOOLEAN}

\* programs whose wide temporaries are all spilled in the entry block
WidePrograms ==
  UNION {{SpillIf(s1, s1, TRUE, nwide,
                  <<Pressure({}, FALSE, e1), Pressure(AllIds, FALSE, {}),
                    Pressure(AllIds, FALSE, {}), NoPressure>>) :
            e1 \in EntrySpills(s1, nwide)} : nwide \in 1..NumWide}

\* two blocks in a row: X and Y are defined in block 1 and used in block 2
SpillChain(rcX, pressure) ==
  LET X == Temp(1, rcX)
      Y == Temp(2, s1)
  IN [allocationID |-> SpillFirstFreeId, assert_failed |-> FALSE,
      pressure |-> pressure,
      logical_predecessors |-> << <<>>, <<1>> >>,
      linear_predecessors |-> << <<>>, <<1>> >>,
      live_start |-> << {}, {X, Y} >>,
      live_end |-> << {X, Y}, {} >>,
      blocks |-> << Body(<<SDef(X), SDef(Y)>>, TRUE, TRUE),
                    Body(<<SUse(X), SUse(Y)>>, TRUE, FALSE) >>]

SpillChains ==
  UNION {{SpillChain(rcX, <<Pressure({}, FALSE, e1), Pressure(keep, FALSE, {})>>) :
            e1 \in EntrySpills(rcX, 0), keep \in {{}, {1}, AllIds}} : rcX \in {s1, s2}}

\* an if whose merge block has two phis with the same operands
SpillShared(pressure) ==
  LET X == Temp(1, s1)
      Y == Temp(2, s1)
      O1 == Temp(4, s1)
      O2 == Temp(5, s1)
      D1 == Temp(6, s1)
      D2 == Temp(7, s1)
  IN [allocationID |-> SpillFirstFreeId, assert_failed |-> FALSE,
      pressure |-> pressure,
      logical_predecessors |-> << <<>>, <<1>>, <<1>>, <<2, 3>> >>,
      linear_predecessors |-> << <<>>, <<1>>, <<1>>, <<2, 3>> >>,
      live_start |-> << {}, {X, Y}, {X, Y}, {X, Y, D1, D2} >>,
      live_end |-> << {X, Y}, {X, Y, O1}, {X, Y, O2}, {} >>,
      blocks |-> <<
        Body(<<SDef(X), SDef(Y)>>, TRUE, TRUE),
        Body(<<SDef(O1)>>, TRUE, TRUE),
        Body(<<SDef(O2)>>, TRUE, TRUE),
        <<SPhi(D1, <<TempOp(O1.id, O1.rc), TempOp(O2.id, O2.rc)>>),
          SPhi(D2, <<TempOp(O1.id, O1.rc), TempOp(O2.id, O2.rc)>>)>>
          \o Body(<<SUse(X), SUse(Y), SUse(D1), SUse(D2)>>, TRUE, FALSE) >>]

SharedPrograms ==
  {SpillShared(<<NoPressure, Pressure({}, FALSE, e2), Pressure({}, FALSE, e3),
                 Pressure({}, partial, {})>>) :
     e2 \in {{}, {<<LogicalEnd, <<Temp(4, s1)>> >>}},
     e3 \in {{}, {<<LogicalEnd, <<Temp(5, s1)>> >>}},
     partial \in BOOLEAN}

SpillPrograms ==
  UNION {SpillProgramsOf(rc[1], rc[2], constOp) :
           rc \in {<<s1, s1>>, <<s2, s1>>, <<s1, s2>>}, constOp \in BOOLEAN}
  \cup WidePrograms \cup SpillChains \cup SharedPrograms

\* spill(): spill_ctx ctx(...), compute_global_next_uses
SpillInit ==
  /\ DivIdle /\ LiveIdle /\ BoolIdle /\ RaIdle /\ AsmIdle /\ GrIdle /\ NuIdle
  /\ sprog \in SpillPrograms
  /\ sctx = EmptyCtx(Len(sprog.blocks), sprog.live_start, sprog.live_end)
  /\ sblock = 1
  /\ sslots = <<>>
  /\ spc = "run"

\* one iteration of the loop of spill() over the blocks: spill_block(ctx, i)
SpillBlock ==
  /\ spc = "run"
  /\ sblock <= Len(sprog.blocks)
  /\ \E r \in {spill_block(sprog, sctx, sblock)} :
       sprog' = r.p /\ sctx' = r.ctx
  /\ sblock' = sblock + 1
  /\ UNCHANGED <<sslots, spc>>
  /\ UNCHANGED <<divVars, liveVars, boolVars, raVars, asmVars, grVars, nuVars>>

\* assign_spill_slots(ctx, spills_to_vgpr)
SpillAssign ==
  /\ spc = "run"
  /\ sblock > Len(sprog.blocks)
  /\ \E r \in {assign_spill_slots(sprog, sctx)} :
       sprog' = r.p /\ sslots' = r.slots
  /\ spc' = "done"
  /\ UNCHANGED <<sctx, sblock>>
  /\ UNCHANGED <<divVars, liveVars, boolVars, raVars, asmVars, grVars, nuVars>>

SpillNext == SpillBlock \/ SpillAssign

SpecSpill == SpillInit /\ [][SpillNext]_vars

\* ---- init_live_in_vars for a block with one linear predecessor, with the
\* ---- register demand and the next use distances that decide it

\* the registers of the variables of a set of pairs
RECURSIVE size_of_pairs(_)
size_of_pairs(m) ==
  IF m = {} THEN 0
  ELSE With(CHOOSE e \in m : TRUE, LAMBDA e : e[1].rc.size + size_of_pairs(m \ {e}))

\* std::map<Temp, std::pair<uint32_t, uint32_t>>::operator[]: an absent key
\* gives {0, 0}
distance_of(m, k) == IF Has(m, k) THEN Get(m, k)[2] ELSE 0

\* 357-375: the variables spilled at the exit of the predecessor that are
\* live here and whose next use is further away than block_idx (b - 1, the
\* blocks being counted from 1 here); the distance of a vgpr is read at the
\* end of the logical predecessor
inherit_far(ctx, p, b) ==
  {pair \in ctx.spills_exit[p.linear_predecessors[b][1]] :
     /\ pair[1].rc.type = "sgpr"
     /\ Has(ctx.next_use_distances_start[b], pair[1])
     /\ distance_of(ctx.next_use_distances_start[b], pair[1]) > b - 1}
  \cup
  (IF Len(p.logical_predecessors[b]) # 1 THEN {}
   ELSE {pair \in ctx.spills_exit[p.logical_predecessors[b][1]] :
           /\ pair[1].rc.type = "vgpr"
           /\ Has(ctx.next_use_distances_start[b], pair[1])
           /\ distance_of(ctx.next_use_distances_end[p.logical_predecessors[b][1]],
                          pair[1]) > b - 1})

\* spilled_sgprs and spilled_vgprs after 357-375
spilled_regs(entry, type) == size_of_pairs({pair \in entry : pair[1].rc.type = type})

\* 378 and 388: the tests of the second step; both compare with target_sgpr
demand_too_high(ctx, p, b, entry, type) ==
  IF type = "sgpr" THEN p.sgpr_demand[b] - spilled_regs(entry, "sgpr") > ctx.target_sgpr
  ELSE p.vgpr_demand[b] - spilled_regs(entry, "vgpr") > ctx.target_sgpr

\* 377-397: if the demand is still too high, all the live variables of the
\* bank that are spilled at the exit of the predecessor stay spilled
inherit_all(ctx, p, b, entry) ==
  entry
  \cup (IF demand_too_high(ctx, p, b, entry, "sgpr")
        THEN {pair \in ctx.spills_exit[p.linear_predecessors[b][1]] :
                pair[1].rc.type = "sgpr" /\ Has(ctx.next_use_distances_start[b], pair[1])}
        ELSE {})
  \cup (IF demand_too_high(ctx, p, b, entry, "vgpr") /\ Len(p.logical_predecessors[b]) = 1
        THEN {pair \in ctx.spills_exit[p.logical_predecessors[b][1]] :
                pair[1].rc.type = "vgpr" /\ Has(ctx.next_use_distances_start[b], pair[1])}
        ELSE {})

\* init_live_in_vars 354-400
init_live_in_single(ctx, p, b) ==
  [ctx EXCEPT !.spills_entry[b] = inherit_all(ctx, p, b, inherit_far(ctx, p, b))]

\* the largest register demand and target of the programs below
MaxDemand == 3

\* the variables of the programs below: two scalars and two vectors
InheritTemps == {Temp(1, s1), Temp(2, s2), Temp(3, v1), Temp(4, RC("vgpr", 2, FALSE))}

\* block 2 with block 1 as its only linear predecessor.  spilled holds the
\* variables spilled at the exit of block 1 (the spill id of a variable is
\* its id - 1), far those whose next use is further away than the block
\* index
InheritProgram(spilled, live, far, logical, sgpr_demand, vgpr_demand) ==
  [p |-> [linear_predecessors |-> << <<>>, <<1>> >>,
          logical_predecessors |-> << <<>>, IF logical THEN <<1>> ELSE <<>> >>,
          sgpr_demand |-> <<sgpr_demand, sgpr_demand>>,
          vgpr_demand |-> <<vgpr_demand, vgpr_demand>>,
          blocks |-> << <<>>, <<>> >>],
   spills_exit |-> << {<<t, t.id - 1>> : t \in spilled}, {} >>,
   next_use_distances_start |->
     << {}, {<<t, <<2, IF t \in far THEN 4 ELSE 1>> >> : t \in live} >>,
   next_use_distances_end |->
     << {<<t, <<2, IF t \in far THEN 5 ELSE 1>> >> : t \in live}, {} >>]

\* the demand of a block counts the variables that are live at its start,
\* and a vgpr is live along the logical edges only
InheritPrograms ==
  {InheritProgram(spilled, live, far, logical, sd, vd) :
     spilled \in SUBSET InheritTemps, live \in SUBSET InheritTemps,
     far \in SUBSET {Temp(1, s1), Temp(3, v1)}, logical \in BOOLEAN,
     sd \in 1..MaxDemand, vd \in 1..MaxDemand}

InheritInit ==
  /\ DivIdle /\ LiveIdle /\ BoolIdle /\ RaIdle /\ AsmIdle /\ GrIdle /\ NuIdle
  /\ \E s \in InheritPrograms : \E ts \in 1..MaxDemand, tv \in 1..MaxDemand :
       /\ s.spills_exit[1] # {}
       /\ \A pair \in s.spills_exit[1] : Has(s.next_use_distances_end[1], pair[1])
       /\ (Len(s.p.logical_predecessors[2]) # 1)
            => \A e \in s.next_use_distances_start[2] : e[1].rc.type # "vgpr"
       /\ s.p.sgpr_demand[2]
            >= size_of_pairs({e \in s.next_use_distances_start[2] : e[1].rc.type = "sgpr"})
       /\ s.p.vgpr_demand[2]
            >= size_of_pairs({e \in s.next_use_distances_start[2] : e[1].rc.type = "vgpr"})
       /\ sprog = s.p
       /\ sctx = [target_sgpr |-> ts, target_vgpr |-> tv,
                  spills_entry |-> << {}, {} >>,
                  spills_exit |-> s.spills_exit,
                  next_use_distances_start |-> s.next_use_distances_start,
                  next_use_distances_end |-> s.next_use_distances_end]
  /\ sblock = 2
  /\ sslots = <<>>
  /\ spc = "init_live_in"

\* spill_block 1018: init_live_in_vars(ctx, block, block_idx)
InheritStep ==
  /\ spc = "init_live_in"
  /\ sctx' = init_live_in_single(sctx, sprog, sblock)
  /\ spc' = "inherited"
  /\ UNCHANGED <<sprog, sblock, sslots>>
  /\ UNCHANGED <<divVars, liveVars, boolVars, raVars, asmVars, grVars, nuVars>>

InheritNext == InheritStep

SpecInherit == InheritInit /\ [][InheritNext]_vars

(***************************************************************************)
(* register_allocation.  std::map and std::unordered_map keyed by a temp   *)
(* id are functions here; an Instruction* is the uid of the instruction    *)
(* (0 for nullptr).  Registers keep their numbers: sgprs from 0, vgprs     *)
(* from 256, in a register file of 512 dwords.                             *)
(***************************************************************************)

\* std::array<uint32_t, 512> register_file
RegFileSize == 512

FirstVgpr == 256

vcc == 106

ROperand(t) ==
  [kind |-> "temp", id |-> t.id, rc |-> t.rc, isFixed |-> FALSE, reg |-> 0, kill |-> FALSE]

\* Operand(uint32_t v) for an inline constant v <= 64: fixed to 128 + v
RConst(v) ==
  [kind |-> "const", id |-> 0, rc |-> rc_b, isFixed |-> TRUE, reg |-> 128 + v, kill |-> FALSE]

\* an operand that must be in a register (setFixed before the allocation)
RFixedOperand(t, reg) == [ROperand(t) EXCEPT !.isFixed = TRUE, !.reg = reg]

RDefinition(t) ==
  [id |-> t.id, rc |-> t.rc, isFixed |-> FALSE, hasHint |-> FALSE, reg |-> 0]

RFixedDefinition(t, reg) == [RDefinition(t) EXCEPT !.isFixed = TRUE, !.reg = reg]

RHintDefinition(t, reg) == [RDefinition(t) EXCEPT !.hasHint = TRUE, !.reg = reg]

RInstr(uid, opcode, operands, definitions) ==
  [uid |-> uid, opcode |-> opcode, vop3 |-> FALSE, operands |-> operands,
   definitions |-> definitions,
   num_definitions |-> Len(definitions)]

\* 52-82: the register bounds of the program
register_bounds(vgpr_demand, sgpr_demand) ==
  IF vgpr_demand <= 24 /\ sgpr_demand <= 46 THEN [max_sgpr |-> 46, max_vgpr |-> 24]
  ELSE IF vgpr_demand <= 28 /\ sgpr_demand <= 54 THEN [max_sgpr |-> 54, max_vgpr |-> 28]
  ELSE IF vgpr_demand <= 32 /\ sgpr_demand <= 62 THEN [max_sgpr |-> 62, max_vgpr |-> 32]
  ELSE IF vgpr_demand <= 36 /\ sgpr_demand <= 70 THEN [max_sgpr |-> 70, max_vgpr |-> 36]
  ELSE IF vgpr_demand <= 40 /\ sgpr_demand <= 78 THEN [max_sgpr |-> 78, max_vgpr |-> 40]
  ELSE IF vgpr_demand <= 48 /\ sgpr_demand <= 94 THEN [max_sgpr |-> 94, max_vgpr |-> 48]
  ELSE [max_sgpr |-> 100,
        max_vgpr |-> IF vgpr_demand <= 64 THEN 64
                     ELSE IF vgpr_demand <= 84 THEN 84
                     ELSE IF vgpr_demand <= 128 THEN 128 ELSE 256]

\* register_file[reg + i] = id for i < size
set_regs(register_file, reg, n, id) ==
  [r \in DOMAIN register_file |->
     IF r \in reg..(reg + n - 1) THEN id ELSE register_file[r]]

\* _get_reg with num_moves == 0 (100-120): the first position from reg_lo
\* on, in steps of stride, whose size dwords are free; -1 if there is none
RECURSIVE get_reg_simple(_, _, _, _, _)
get_reg_simple(reg_file, reg_lo, ub, n, stride) ==
  IF reg_lo + n > ub THEN -1
  ELSE IF reg_file[reg_lo] # 0 THEN get_reg_simple(reg_file, reg_lo + stride, ub, n, stride)
  ELSE With({i \in 1..(n - 1) : reg_file[reg_lo + i] # 0}, LAMBDA taken :
         IF taken = {} THEN reg_lo
         ELSE With(reg_lo + (CHOOSE i \in taken : \A j \in taken : i <= j), LAMBDA reg_hi :
                get_reg_simple(reg_file,
                  reg_lo + stride * (((reg_hi - reg_lo) \div stride) + 1), ub, n, stride)))

\* get_reg (207-279): the bounds and the stride of the class, then _get_reg
\* without moves.  found is FALSE when the search with moves (121-205,
\* 232-277) would start: the register file of the programs below is never
\* that full.
get_reg(reg_file, rc, bounds) ==
  LET lb == IF rc.type = "vgpr" THEN FirstVgpr ELSE 0
      ub == IF rc.type = "vgpr" THEN FirstVgpr + bounds.max_vgpr ELSE bounds.max_sgpr
      stride == IF rc.type = "vgpr" THEN 1
                ELSE IF rc.size = 2 THEN 2 ELSE IF rc.size >= 4 THEN 4 ELSE 1
  IN With(get_reg_simple(reg_file, lb, ub, rc.size, stride), LAMBDA reg :
       [reg |-> IF reg < 0 THEN 0 ELSE reg, found |-> reg >= 0])

\* std::(unordered_)map keyed by a temp id: m[k] = v, m.emplace(k, v), m.erase(k)
MapPut(m, k, v) == (k :> v) @@ m

MapEmplace(m, k, v) == m @@ (k :> v)

MapErase(m, k) == [x \in DOMAIN m \ {k} |-> m[x]]

\* assignments[id].first; operator[] gives PhysReg{0} for an id without entry
reg_of(st, id) == IF id \in DOMAIN st.assignments THEN st.assignments[id].reg ELSE 0

\* Operand::getTemp / Definition::getTemp
temp_of(x) == Temp(x.id, x.rc)

\* Operand::setTemp: the register and the flags stay
setTemp(op, t) == [op EXCEPT !.kind = "temp", !.id = t.id, !.rc = t.rc]

setFixed(x, reg) == [x EXCEPT !.isFixed = TRUE, !.reg = reg]

\* 433-436: the operands of an instruction that were not live yet die there
RECURSIVE kill_operands(_, _, _)
kill_operands(bs, instr, i) ==
  IF i > Len(instr.operands) THEN bs
  ELSE With(instr.operands[i], LAMBDA op :
         IF op.kind = "temp" /\ op.id \notin {t.id : t \in bs.live}
         THEN kill_operands([bs EXCEPT !.live = @ \cup {temp_of(op)},
                                       !.kills = MapEmplace(@, op.id, instr.uid)],
                            instr, i + 1)
         ELSE kill_operands(bs, instr, i + 1))

\* 439-450: the operand of a phi with the smallest id among those of the
\* class of the definition that come from an earlier block, as
\* <<preferred, op_idx>>
RECURSIVE preferred_operand(_, _, _, _, _)
preferred_operand(instr, preds, b, i, best) ==
  IF i > Len(instr.operands) THEN best
  ELSE With(instr.operands[i], LAMBDA op :
         preferred_operand(instr, preds, b, i + 1,
           IF preds[i] < b /\ op.kind = "temp" /\ op.id < best[1]
              /\ op.rc = instr.definitions[1].rc
           THEN <<op.id, i>> ELSE best))

\* 451-456
RECURSIVE emplace_affinities(_, _, _, _)
emplace_affinities(affinities, instr, best, i) ==
  IF i > Len(instr.operands)
  THEN IF best[2] <= Len(instr.operands)
       THEN MapEmplace(affinities, instr.definitions[1].id, best[1])
       ELSE affinities
  ELSE emplace_affinities(
         IF instr.operands[i].kind = "temp" /\ i # best[2]
         THEN MapEmplace(affinities, instr.operands[i].id, best[1])
         ELSE affinities,
         instr, best, i + 1)

\* 430-463: the instructions of a block from the last to the first
RECURSIVE kills_of_block(_, _, _, _)
kills_of_block(st, bs, b, k) ==
  IF k = 0 THEN bs
  ELSE With(st.heap[st.blocks[b][k]], LAMBDA instr :
    With(IF ~is_phi(instr) THEN kill_operands(bs, instr, 1)
         ELSE With(IF instr.opcode = "p_phi" THEN st.logical_predecessors[b]
                   ELSE st.linear_predecessors[b], LAMBDA preds :
                With(preferred_operand(instr, preds, b, 1,
                       <<instr.definitions[1].id, Len(instr.operands) + 1>>),
                     LAMBDA best :
                  [bs EXCEPT !.affinities = emplace_affinities(@, instr, best, 1)])),
         LAMBDA bs1 :
      kills_of_block(st,
        [bs1 EXCEPT !.live = {t \in @ :
           t.id \notin {instr.definitions[i].id : i \in 1..instr.num_definitions}}],
        b, k - 1)))

\* 417-464: the kill points and the affinities, from the last block to the
\* first; live_out_per_block[b] becomes the set of the variables live at
\* the start of b
RECURSIVE compute_kills(_, _)
compute_kills(st, b) ==
  IF b = 0 THEN st
  ELSE With(kills_of_block(st,
              [live |-> st.live[b],
               kills |-> [id \in {t.id : t \in st.live[b]} |-> 0],
               affinities |-> st.affinities],
              b, Len(st.blocks[b])), LAMBDA bs :
         compute_kills([st EXCEPT !.live[b] = bs.live, !.kills[b] = bs.kills,
                                  !.affinities = bs.affinities], b - 1))

\* a phi that lacks the operand of the last predecessor
RPhi_short(uid, val, new_val, reg, operands) ==
  RInstr(uid, IF val.rc.type = "vgpr" THEN "p_phi" ELSE "p_linear_phi",
         SubSeq(operands, 1, Len(operands) - 1), <<RFixedDefinition(new_val, reg)>>)

\* create_instruction(p_phi / p_linear_phi, PSEUDO, preds.size(), 1) with
\* the definition new_val fixed to the register of val (318-323, 335-342)
RPhi(uid, val, new_val, reg, operands) ==
  RInstr(uid, IF val.rc.type = "vgpr" THEN "p_phi" ELSE "p_linear_phi",
         operands, <<RFixedDefinition(new_val, reg)>>)

\* Operand(): undefined, fixed to register 128
RUndef == [kind |-> "undef", id |-> 0, rc |-> rc_b, isFixed |-> TRUE, reg |-> 128, kill |-> FALSE]

ra_preds(st, val, b) ==
  IF val.rc.type = "vgpr" THEN st.logical_predecessors[b] ELSE st.linear_predecessors[b]

\* phi_map[id].uses.emplace(instr) when id is a phi
add_use(st, id, uid) ==
  IF id \in DOMAIN st.phi_map THEN [st EXCEPT !.phi_map[id].uses = @ \cup {uid}] ELSE st

\* 388-391: the operands of a user that name def now name same
reroute(instr, def, same) ==
  [instr EXCEPT !.operands =
     [i \in DOMAIN @ |-> IF @[i].kind = "temp" /\ @[i].id = def.id
                         THEN setTemp(@[i], same) ELSE @[i]]]

same_operand_never(instr, def, same, i) == def

\* 373-382: Temp() when no operand differs from the definition, the
\* definition when two operands differ, else the one operand
RECURSIVE same_operand(_, _, _, _)
same_operand(instr, def, same, i) ==
  IF i > Len(instr.operands) THEN same
  ELSE With(instr.operands[i], LAMBDA op :
         IF op.id = same.id \/ op.id = def.id THEN same_operand(instr, def, same, i + 1)
         ELSE IF same.id # 0 THEN def
         ELSE same_operand(instr, def, temp_of(op), i + 1))

\* the elements of a set of uids, in increasing order
RECURSIVE uid_order(_)
uid_order(S) ==
  IF S = {} THEN <<>>
  ELSE With(CHOOSE u \in S : \A w \in S : u <= w, LAMBDA u : <<u>> \o uid_order(S \ {u}))

RECURSIVE read_variable(_, _, _)
RECURSIVE read_variable_recursive(_, _, _)
RECURSIVE read_operands(_, _, _, _, _, _)
RECURSIVE try_remove_trivial_phi(_, _)
RECURSIVE remove_phi_users(_, _, _)

\* 298-308
read_variable(st, val, b) ==
  IF val.id \in DOMAIN st.renames[b] THEN [st |-> st, t |-> st.renames[b][val.id]]
  ELSE read_variable_recursive(st, val, b)

\* 347-354: the name of val in every predecessor becomes an operand of the phi
read_operands(st, val, new_val, uid, preds, i) ==
  IF i > Len(preds) THEN st
  ELSE With(read_variable(st, val, preds[i]), LAMBDA r :
         read_operands(
           With([r.st EXCEPT !.heap[uid].operands[i] =
                               setFixed(setTemp(@, r.t), reg_of(r.st, r.t.id)),
                             !.assert_failed = @ \/ r.t.id \notin DOMAIN r.st.assignments],
                LAMBDA st1 : IF r.t.id # new_val.id THEN add_use(st1, r.t.id, uid) ELSE st1),
           val, new_val, uid, preds, i + 1))

\* 310-365
read_variable_recursive(st, val, b) ==
  LET preds == ra_preds(st, val, b)
      new_val == Temp(st.allocationID, val.rc)
      uid == Len(st.heap) + 1
      reg == reg_of(st, val.id)
      named(s, t) == [st |-> [s EXCEPT !.renames[b] = MapPut(@, val.id, t),
                                       !.orig_names = MapPut(@, t.id, val)],
                      t |-> t]
  IN IF preds = <<>> THEN [st |-> [st EXCEPT !.assert_failed = TRUE], t |-> val]
     ELSE IF ~st.sealed[b] THEN
       named([st EXCEPT
                !.allocationID = @ + 1,
                !.heap = Append(@, RPhi(uid, val, new_val, reg,
                                        [i \in 1..Len(preds) |-> ROperand(val)])),
                !.assignments = MapPut(@, new_val.id, [reg |-> reg, rc |-> val.rc]),
                !.phi_map = MapEmplace(@, new_val.id,
                                       [phi |-> uid, block_idx |-> b, uses |-> {}]),
                !.incomplete_phis[b] = Append(@, uid)],
             new_val)
     ELSE IF Len(preds) = 1 THEN
       With(read_variable(st, val, preds[1]), LAMBDA r : named(r.st, r.t))
     ELSE
       With(read_operands(
              [st EXCEPT
                 !.allocationID = @ + 1,
                 !.renames[b] = MapPut(@, val.id, new_val),
                 !.heap = Append(@, RPhi(uid, val, new_val, reg,
                                         [i \in 1..Len(preds) |-> RUndef])),
                 !.assignments = MapPut(@, new_val.id, [reg |-> reg, rc |-> val.rc]),
                 !.phi_map = MapEmplace(@, new_val.id,
                                        [phi |-> uid, block_idx |-> b, uses |-> {}])],
              val, new_val, uid, preds, 1), LAMBDA st1 :
         With(try_remove_trivial_phi(st1, new_val.id), LAMBDA r :
           named([r.st EXCEPT !.phis[b] = Append(@, uid)], r.t)))

\* 410-411: try_remove_trivial_phi for the users that are phis.  An iterator
\* of phi_users whose phi was erased in between is out of the model.
remove_phi_users(st, users, k) ==
  IF k > Len(users) THEN st
  ELSE IF users[k] \notin DOMAIN st.phi_map
       THEN remove_phi_users([st EXCEPT !.out_of_model = TRUE], users, k + 1)
       ELSE With(try_remove_trivial_phi(st, users[k]), LAMBDA r :
              remove_phi_users(r.st, users, k + 1))

\* 367-415.  The phi is erased from phi_map at 409 and info->second.block_idx
\* is read from the erased node at 414: erased_read records that the read
\* happened, and t is the result when the freed node still holds its value.
try_remove_trivial_phi(st, id) ==
  LET info == st.phi_map[id]
      instr == st.heap[info.phi]
      def == temp_of(instr.definitions[1])
      same == same_operand(instr, def, NoTemp, 1)
      orig_var == IF same.id \in DOMAIN st.orig_names THEN st.orig_names[same.id].id
                  ELSE same.id
      phi_users == {st.heap[u].definitions[1].id :
                      u \in {w \in info.uses : is_phi(st.heap[w])}} \cap DOMAIN st.phi_map
  IN IF same.id = def.id
     THEN [st |-> [st EXCEPT !.assert_failed = @ \/ info.block_idx = 1], t |-> def]
     ELSE IF same.id = 0 THEN [st |-> [st EXCEPT !.assert_failed = TRUE], t |-> def]
     ELSE
       With([st EXCEPT
               !.assert_failed = @ \/ info.block_idx = 1,
               !.heap = [u \in DOMAIN @ |->
                           With(IF u \in info.uses THEN reroute(@[u], def, same) ELSE @[u],
                                LAMBDA user :
                                  IF u = info.phi THEN [user EXCEPT !.num_definitions = 0]
                                  ELSE user)],
               !.renames = [i \in DOMAIN @ |->
                              IF orig_var \in DOMAIN @[i] /\ @[i][orig_var].id = def.id
                              THEN MapPut(@[i], orig_var, same) ELSE @[i]],
               !.phi_map = MapErase(@, id),
               !.erased_read = TRUE], LAMBDA st1 :
         With(remove_phi_users(st1, uid_order(phi_users), 1), LAMBDA st2 :
           IF orig_var \in DOMAIN st2.renames[info.block_idx]
           THEN [st |-> st2, t |-> st2.renames[info.block_idx][orig_var]]
           ELSE [st |-> [st2 EXCEPT !.renames[info.block_idx] = MapPut(@, orig_var, NoTemp)],
                 t |-> NoTemp]))

\* 0xFFFF marks the registers a blocking variable was moved out of (577)
Evicted == 65535

\* assignments[id].second; operator[] gives RegClass 0 for an id without entry
rc_of(st, id) == IF id \in DOMAIN st.assignments THEN st.assignments[id].rc ELSE rc_b

\* for (i < n) { register_file[from + i] = mark; register_file[to + i] = id; }
RECURSIVE move_regs(_, _, _, _, _, _, _)
move_regs(register_file, from, to, n, id, mark, i) ==
  IF i >= n THEN register_file
  ELSE move_regs([register_file EXCEPT ![from + i] = mark, ![to + i] = id],
                 from, to, n, id, mark, i + 1)

\* get_reg for a parallelcopy definition; a search that needs moves is out
\* of the model
find_reg(st, rc) ==
  With(get_reg(st.register_file, rc,
               register_bounds(st.vgpr_demand, st.sgpr_demand)), LAMBDA r :
    [reg |-> r.reg, st |-> [st EXCEPT !.out_of_model = @ \/ ~r.found]])

\* 513-527: the variable in the register the operand is fixed to moves away
move_blocking(st, operand) ==
  IF st.register_file[operand.reg] = 0 THEN st
  ELSE LET blocking_id == st.register_file[operand.reg]
           rc == rc_of(st, blocking_id)
           pc_op == RFixedOperand(Temp(blocking_id, rc), operand.reg)
       IN With(find_reg(st, rc), LAMBDA r :
            LET pc_def == RFixedDefinition(Temp(r.st.allocationID, rc), r.reg)
            IN [r.st EXCEPT
                  !.allocationID = @ + 1,
                  !.assignments = MapPut(@, pc_def.id, [reg |-> r.reg, rc |-> rc]),
                  !.register_file = move_regs(@, pc_op.reg, pc_def.reg, operand.rc.size,
                                              pc_def.id, 0, 0),
                  !.parallelcopy = Append(@, <<pc_op, pc_def>>)])

\* 529-541: the operand moves to the register it is fixed to, under a new name
move_operand(st, uid, i, operand) ==
  LET pc_op == setFixed(operand, reg_of(st, operand.id))
      tmp == Temp(st.allocationID, operand.rc)
      pc_def == RFixedDefinition(tmp, operand.reg)
  IN [st EXCEPT
        !.allocationID = @ + 1,
        !.heap[uid].operands[i] = RFixedOperand(tmp, operand.reg),
        !.assignments = MapPut(@, tmp.id, [reg |-> operand.reg, rc |-> operand.rc]),
        !.register_file = move_regs(@, pc_op.reg, pc_def.reg, operand.rc.size, tmp.id, 0, 0),
        !.parallelcopy = Append(@, <<pc_op, pc_def>>)]

\* 492-551: operand i of the instruction
handle_operand(st, b, uid, i) ==
  IF st.heap[uid].operands[i].kind # "temp" THEN st
  ELSE
    With([st EXCEPT !.heap[uid].operands[i].kill =
            @ \/ (st.heap[uid].operands[i].id \in DOMAIN st.kills[b]
                  /\ st.kills[b][st.heap[uid].operands[i].id] = uid)], LAMBDA st0 :
    With(read_variable(st0, temp_of(st0.heap[uid].operands[i]), b), LAMBDA r :
    With(setTemp(r.st.heap[uid].operands[i], r.t), LAMBDA operand :
    With([r.st EXCEPT !.heap[uid].operands[i] = operand], LAMBDA st1 :
    With(IF operand.isFixed
         THEN IF operand.reg = reg_of(st1, operand.id) THEN st1
              ELSE With(move_blocking(st1, operand), LAMBDA st2 :
                     move_operand(st2, uid, i, operand))
         ELSE [st1 EXCEPT !.heap[uid].operands[i] = setFixed(@, reg_of(st1, operand.id)),
                          !.assert_failed = @ \/ operand.id \notin DOMAIN st1.assignments],
         LAMBDA st3 : add_use(st3, st3.heap[uid].operands[i].id, uid))))))

RECURSIVE handle_operands(_, _, _, _)
handle_operands(st, b, uid, i) ==
  IF i > Len(st.heap[uid].operands) THEN st
  ELSE With(handle_operand(st, b, uid, i), LAMBDA st1 : handle_operands(st1, b, uid, i + 1))

\* 553-556: the registers of the operands that die at the instruction are free
RECURSIVE remove_dead(_, _, _)
remove_dead(register_file, operands, i) ==
  IF i > Len(operands) THEN register_file
  ELSE remove_dead(IF operands[i].isFixed /\ operands[i].kill
                   THEN set_regs(register_file, operands[i].reg, operands[i].rc.size, 0)
                   ELSE register_file,
                   operands, i + 1)

\* 566-581: the variable in the register a definition is fixed to moves away
evict_blocking(st, definition) ==
  IF st.register_file[definition.reg] = 0 THEN st
  ELSE LET blocking_id == st.register_file[definition.reg]
           rc == rc_of(st, blocking_id)
           pc_op == RFixedOperand(Temp(blocking_id, rc), reg_of(st, blocking_id))
       IN With(find_reg(st, rc), LAMBDA r :
            LET pc_def == RFixedDefinition(Temp(r.st.allocationID, rc), r.reg)
            IN [r.st EXCEPT
                  !.allocationID = @ + 1,
                  !.assignments = MapPut(@, pc_def.id, [reg |-> r.reg, rc |-> rc]),
                  !.register_file = move_regs(@, pc_op.reg, pc_def.reg, rc.size,
                                              pc_def.id, Evicted, 0),
                  !.parallelcopy = Append(@, <<pc_op, pc_def>>)])

\* 592-602: the register of the affinity if all its dwords are free
affinity_reg(st, definition) ==
  LET reg == reg_of(st, st.affinities[definition.id])
  IN IF \E j \in 0..(definition.rc.size - 1) : st.register_file[reg + j] # 0
     THEN find_reg(st, definition.rc)
     ELSE [reg |-> reg, st |-> st]

\* 583-604: the register of a definition that is not fixed
place_definition(st, instr, i) ==
  LET definition == instr.definitions[i]
  IN IF instr.opcode \in {"v_interp_p2_f32", "v_mac_f32"}
     THEN [reg |-> instr.operands[3].reg, st |-> st]
     ELSE IF instr.opcode = "p_split_vector"
             /\ st.register_file[instr.operands[1].reg + (i - 1)] = 0
     THEN [reg |-> instr.operands[1].reg + (i - 1), st |-> st]
     ELSE IF definition.hasHint /\ st.register_file[definition.reg] = 0
     THEN [reg |-> definition.reg, st |-> st]
     ELSE IF definition.id \in DOMAIN st.affinities
             /\ st.affinities[definition.id] \in DOMAIN st.assignments
     THEN affinity_reg(st, definition)
     ELSE find_reg(st, definition.rc)

\* 560-616: definition i of the instruction
handle_definition(st, b, uid, i) ==
  IF st.heap[uid].definitions[i].id = 0 THEN st
  ELSE
    With(IF st.heap[uid].definitions[i].isFixed
         THEN [reg |-> st.heap[uid].definitions[i].reg,
               st |-> evict_blocking(st, st.heap[uid].definitions[i])]
         ELSE place_definition(st, st.heap[uid], i), LAMBDA r :
      LET definition == setFixed(st.heap[uid].definitions[i], r.reg)
          has_kill == definition.id \in DOMAIN st.kills[b]
      IN [r.st EXCEPT
            !.heap[uid].definitions[i] = definition,
            !.assignments = MapPut(@, definition.id, [reg |-> r.reg, rc |-> definition.rc]),
            !.register_file = IF has_kill
                              THEN set_regs(@, r.reg, definition.rc.size, definition.id)
                              ELSE @,
            !.live[b] = IF has_kill THEN @ \cup {temp_of(definition)} ELSE @,
            !.renames[b] = MapPut(@, definition.id, temp_of(definition))])

RECURSIVE handle_definitions(_, _, _, _)
handle_definitions(st, b, uid, i) ==
  IF i > st.heap[uid].num_definitions THEN st
  ELSE With(handle_definition(st, b, uid, i), LAMBDA st1 :
         handle_definitions(st1, b, uid, i + 1))

\* 621-637: pair i of the parallelcopy; instr is the instruction the copy
\* is emitted for
RECURSIVE rename_copies(_, _, _, _, _)
rename_copies(st, b, pc, instr, i) ==
  IF i > Len(st.heap[pc].operands) THEN st
  ELSE
    LET op == st.heap[pc].operands[i]
        orig == IF op.id \in DOMAIN st.orig_names THEN st.orig_names[op.id] ELSE temp_of(op)
        def == temp_of(st.heap[pc].definitions[i])
    IN With(read_variable([st EXCEPT !.orig_names = MapPut(@, def.id, orig)], orig, b),
            LAMBDA r :
         rename_copies(
           add_use([r.st EXCEPT !.heap[pc].operands[i] = setTemp(@, r.t),
                                !.renames[b] = MapPut(@, orig.id, def)],
                   r.t.id, instr),
           b, pc, instr, i + 1))

\* 618-639
emit_parallelcopy(st, b, instr) ==
  IF st.parallelcopy = <<>> THEN st
  ELSE LET pc == Len(st.heap) + 1
       IN With(rename_copies(
                 [st EXCEPT !.heap = Append(@,
                    RInstr(pc, "p_parallelcopy",
                           [i \in 1..Len(st.parallelcopy) |-> st.parallelcopy[i][1]],
                           [i \in 1..Len(st.parallelcopy) |-> st.parallelcopy[i][2]]))],
                 b, pc, instr, 1), LAMBDA st1 :
            [st1 EXCEPT !.instructions = Append(@, pc), !.parallelcopy = <<>>])

\* 640-650: v_add_co_u32 whose carry is not in vcc becomes a new VOP3A
\* instruction; the instruction joins the new list of the block
emit_instruction(st, uid) ==
  LET instr == st.heap[uid]
  IN IF instr.opcode = "v_add_co_u32" /\ instr.definitions[2].reg # vcc
     THEN [st EXCEPT !.heap = Append(@, [instr EXCEPT !.uid = Len(st.heap) + 1,
                                                      !.vop3 = TRUE]),
                     !.instructions = Append(@, Len(st.heap) + 1)]
     ELSE [st EXCEPT !.instructions = Append(@, uid)]

\* 482-651: one instruction of the block
handle_instruction(st, b, uid) ==
  With(IF is_phi(st.heap[uid])
       THEN [st EXCEPT !.renames[b] =
               MapPut(@, st.heap[uid].definitions[1].id, temp_of(st.heap[uid].definitions[1]))]
       ELSE With(handle_operands(st, b, uid, 1), LAMBDA st1 :
              [st1 EXCEPT !.register_file = remove_dead(@, st1.heap[uid].operands, 1)]),
       LAMBDA st2 :
    With(handle_definitions(st2, b, uid, 1), LAMBDA st3 :
      With(emit_parallelcopy(st3, b, uid), LAMBDA st4 : emit_instruction(st4, uid))))

RECURSIVE handle_instructions(_, _, _)
handle_instructions(st, b, k) ==
  IF k > Len(st.blocks[b]) THEN st
  ELSE With(handle_instruction(st, b, st.blocks[b][k]), LAMBDA st1 :
         handle_instructions(st1, b, k + 1))

\* 471-477: the registers of the variables live at the start of the block
RECURSIVE initial_register_file(_, _, _)
initial_register_file(st, register_file, live) ==
  IF live = <<>> THEN register_file
  ELSE initial_register_file(st,
         set_regs(register_file, reg_of(st, live[1].id), live[1].rc.size, live[1].id),
         Tail(live))

\* std::set<Temp> in iteration order
RECURSIVE temp_order(_)
temp_order(S) ==
  IF S = {} THEN <<>>
  ELSE With(CHOOSE t \in S : \A u \in S : t.id <= u.id, LAMBDA t :
         <<t>> \o temp_order(S \ {t}))

\* 666-673: an incomplete phi of a block that is sealed gets its operands
RECURSIVE complete_operands(_, _, _, _)
complete_operands(st, uid, preds, i) ==
  IF i > Len(st.heap[uid].operands) THEN st
  ELSE With(read_variable(st, temp_of(st.heap[uid].operands[i]), preds[i]), LAMBDA r :
         complete_operands(
           [r.st EXCEPT !.heap[uid].operands[i] =
                          setFixed(setTemp(@, r.t), reg_of(r.st, r.t.id))],
           uid, preds, i + 1))

\* phi_map.find of a phi that is not in phi_map any more gives end(): out
\* of the model
RECURSIVE complete_incomplete_phis(_, _, _)
complete_incomplete_phis(st, succ, k) ==
  IF k > Len(st.incomplete_phis[succ]) THEN st
  ELSE LET uid == st.incomplete_phis[succ][k]
           def == temp_of(st.heap[uid].definitions[1])
       IN With(complete_operands(st, uid, ra_preds(st, def, succ), 1), LAMBDA st1 :
            complete_incomplete_phis(
              IF def.id \in DOMAIN st1.phi_map THEN try_remove_trivial_phi(st1, def.id).st
              ELSE [st1 EXCEPT !.out_of_model = TRUE],
              succ, k + 1))

\* 680-689: the operands of an original phi
RECURSIVE complete_phi(_, _, _, _)
complete_phi(st, uid, preds, i) ==
  IF i > Len(st.heap[uid].operands) THEN st
  ELSE IF st.heap[uid].operands[i].kind # "temp" THEN complete_phi(st, uid, preds, i + 1)
  ELSE With(read_variable(st, temp_of(st.heap[uid].operands[i]), preds[i]), LAMBDA r :
         complete_phi(
           add_use([r.st EXCEPT !.heap[uid].operands[i] =
                                  setFixed(setTemp(@, r.t), reg_of(r.st, r.t.id))],
                   r.t.id, uid),
           uid, preds, i + 1))

\* 675-690: the phis at the start of the block
RECURSIVE complete_phis(_, _, _)
complete_phis(st, succ, k) ==
  IF k > Len(st.blocks[succ]) \/ ~is_phi(st.heap[st.blocks[succ][k]]) THEN st
  ELSE With(complete_phi(st, st.blocks[succ][k],
                         IF st.heap[st.blocks[succ][k]].opcode = "p_phi"
                         THEN st.logical_predecessors[succ]
                         ELSE st.linear_predecessors[succ], 1), LAMBDA st1 :
         complete_phis(st1, succ, k + 1))

all_filled_always(st, succ) == TRUE

\* 657-663: all linear predecessors of the successor are filled
all_filled(st, succ) ==
  \A i \in DOMAIN st.linear_predecessors[succ] :
     st.filled[st.linear_predecessors[succ][i]]

\* 655-697: the successors whose predecessors are all filled are sealed
RECURSIVE seal_successors(_, _)
seal_successors(st, succs) ==
  IF succs = <<>> THEN st
  ELSE LET succ == succs[1]
       IN IF ~all_filled(st, succ)
          THEN seal_successors(st, Tail(succs))
          ELSE With(complete_incomplete_phis(st, succ, 1), LAMBDA st1 :
                 With(complete_phis(st1, succ, 1), LAMBDA st2 :
                   seal_successors(
                     [st2 EXCEPT !.phis[succ] = @ \o st2.incomplete_phis[succ],
                                 !.incomplete_phis[succ] = <<>>,
                                 !.sealed[succ] = TRUE],
                     Tail(succs))))

\* 466-698: one block of the main loop
allocate_block(st, b) ==
  With(handle_instructions(
         [st EXCEPT !.assert_failed = @ \/ (b = 1 /\ st.live[b] # {})
                                     \/ (\E t \in st.live[b] : t.id \notin DOMAIN st.assignments),
                    !.register_file = initial_register_file(st,
                                        [r \in 0..(RegFileSize - 1) |-> 0],
                                        temp_order(st.live[b])),
                    !.instructions = <<>>,
                    !.parallelcopy = <<>>], b, 1), LAMBDA st1 :
    With(seal_successors([st1 EXCEPT !.blocks[b] = st1.instructions,
                                     !.filled[b] = TRUE], st1.linear_successors[b]),
         LAMBDA st2 : [st2 EXCEPT !.register_file = <<>>, !.instructions = <<>>]))

\* 700-712: the new phis that were not removed go to the start of their block
merge_phis(st) ==
  [st EXCEPT !.blocks = [b \in DOMAIN @ |->
     SelectSeq(st.phis[b], LAMBDA uid : st.heap[uid].num_definitions # 0) \o @[b]]]

\* ---- the programs register_allocation is run on

v2 == RC("vgpr", 2, FALSE)

\* a move of a constant into a new temporary
RMov(t) ==
  RInstr(0, IF t.rc.type = "vgpr" THEN "v_mov_b32" ELSE "s_mov_b32",
         <<RConst(0)>>, <<RDefinition(t)>>)

\* an instruction with the given operands and one definition
ROp(opcode, operands, t) == RInstr(0, opcode, operands, <<RDefinition(t)>>)

\* an instruction that only reads
RUse(opcode, operands) == RInstr(0, opcode, operands, <<>>)

RBranch == RInstr(0, "s_branch", <<>>, <<>>)

RECURSIVE instrs_before(_, _)
instrs_before(code, b) ==
  IF b = 1 THEN 0 ELSE instrs_before(code, b - 1) + Len(code[b - 1])

\* Program: the instructions of the blocks get their identity, and the
\* first free temp id is first_free
RProgram(code, logical_predecessors, linear_predecessors, linear_successors, first_free) ==
  [blocks |-> [b \in DOMAIN code |->
                 [k \in DOMAIN code[b] |-> instrs_before(code, b) + k]],
   heap |-> [u \in 1..instrs_before(code, Len(code) + 1) |->
               LET b == CHOOSE x \in DOMAIN code :
                          /\ instrs_before(code, x) < u
                          /\ u <= instrs_before(code, x) + Len(code[x])
               IN [code[b][u - instrs_before(code, b)] EXCEPT !.uid = u]],
   allocationID |-> first_free,
   logical_predecessors |-> logical_predecessors,
   linear_predecessors |-> linear_predecessors,
   linear_successors |-> linear_successors,
   vgpr_demand |-> 8,
   sgpr_demand |-> 8]

\* the state of register_allocation before its first loop (48-293, 417-418)
RaCtx(p, live_out_per_block) ==
  [live |-> live_out_per_block,
   assignments |-> <<>>,
   renames |-> [b \in DOMAIN p.blocks |-> <<>>],
   orig_names |-> <<>>,
   affinities |-> <<>>,
   kills |-> [b \in DOMAIN p.blocks |-> <<>>],
   filled |-> [b \in DOMAIN p.blocks |-> FALSE],
   sealed |-> [b \in DOMAIN p.blocks |-> FALSE],
   phis |-> [b \in DOMAIN p.blocks |-> <<>>],
   incomplete_phis |-> [b \in DOMAIN p.blocks |-> <<>>],
   phi_map |-> <<>>,
   register_file |-> <<>>,
   instructions |-> <<>>,
   parallelcopy |-> <<>>,
   erased_read |-> FALSE,
   assert_failed |-> FALSE,
   out_of_model |-> FALSE]

RaFirstFreeId == 20

\* one block: three vgprs, an instruction with three operands whose
\* definition may reuse the register of its third operand, and a last
\* instruction reading the result and one more operand
RaMac(opcode, last) ==
  LET a == Temp(1, v1)
      b == Temp(2, v1)
      c == Temp(3, v1)
      d == Temp(4, v1)
      e == Temp(5, v1)
  IN [p |-> RProgram(
        << <<RMov(a), RMov(b), RMov(c),
             ROp(opcode, <<ROperand(a), ROperand(b), ROperand(c)>>, d),
             ROp("v_add_f32",
                 <<ROperand(d),
                   IF last = 0 THEN RConst(1) ELSE ROperand(Temp(last, v1))>>, e),
             RUse("exp", <<ROperand(e)>>)>> >>,
        << <<>> >>, << <<>> >>, << <<>> >>, RaFirstFreeId),
      live |-> << {} >>]

MacPrograms ==
  {RaMac(opcode, last) : opcode \in {"v_mac_f32", "v_interp_p2_f32", "v_mad_f32"},
                         last \in 0..3}

\* -1: the operand or the definition is not fixed
NotFixed == -1

ROperandAt(t, reg) == IF reg = NotFixed THEN ROperand(t) ELSE RFixedOperand(t, reg)

RDefinitionAt(t, mode, reg) ==
  IF mode = "fixed" THEN RFixedDefinition(t, reg)
  ELSE IF mode = "hint" THEN RHintDefinition(t, reg)
  ELSE RDefinition(t)

\* one block: z = s_and_b32 x, y with x fixed to a register or not and z
\* fixed, hinted or free; the last instruction reads z and the variables of
\* later
RaFixed(op_reg, mode, def_reg, later) ==
  LET x == Temp(1, s1)
      y == Temp(2, s1)
      z == Temp(3, s1)
  IN [p |-> RProgram(
        << <<RMov(x), RMov(y),
             RInstr(0, "s_and_b32", <<ROperandAt(x, op_reg), ROperand(y)>>,
                    <<RDefinitionAt(z, mode, def_reg)>>),
             RUse("s_cmp_eq_u32",
                  <<ROperand(z)>> \o [k \in 1..Len(later) |-> ROperand(Temp(later[k], s1))])>> >>,
        << <<>> >>, << <<>> >>, << <<>> >>, RaFirstFreeId),
      live |-> << {} >>]

FixedPrograms ==
  {RaFixed(op_reg, m[1], m[2], later) :
     op_reg \in {NotFixed, 1, 3},
     m \in {<<"free", 0>>, <<"fixed", 0>>, <<"fixed", 1>>, <<"hint", 1>>, <<"hint", 3>>},
     later \in {<<>>, <<1>>, <<1, 2>>}}

\* one block: a vector is split; the first half is read afterwards or not,
\* and so is the vector
RaSplit(rc, half, use_lo, again) ==
  LET w == Temp(1, rc)
      lo == Temp(2, half)
      hi == Temp(3, half)
  IN [p |-> RProgram(
        << <<RMov(w),
             RInstr(0, "p_split_vector", <<ROperand(w)>>, <<RDefinition(lo), RDefinition(hi)>>),
             RUse("exp", (IF use_lo THEN <<ROperand(lo)>> ELSE <<>>) \o <<ROperand(hi)>>
                         \o (IF again THEN <<ROperand(w)>> ELSE <<>>))>> >>,
        << <<>> >>, << <<>> >>, << <<>> >>, RaFirstFreeId),
      live |-> << {} >>]

SplitPrograms ==
  {RaSplit(rc[1], rc[2], use_lo, again) :
     rc \in {<<s2, s1>>, <<s4, s2>>, <<v2, v1>>}, use_lo \in BOOLEAN, again \in BOOLEAN}

\* three blocks in a row: x is defined in the first, read from a fixed
\* register (or not) in the second, and read in the third after ndefs
\* other definitions
RaChain(rc, op_reg, ndefs) ==
  LET x == Temp(1, rc)
      y(k) == Temp(1 + k, rc)
  IN [p |-> RProgram(
        << <<RMov(x), RBranch>>,
           <<RUse("s_cmp_eq_u32", <<ROperandAt(x, op_reg)>>), RBranch>>,
           [k \in 1..ndefs |-> RMov(y(k))]
             \o <<RUse("exp", <<ROperand(x)>> \o [k \in 1..ndefs |-> ROperand(y(k))])>> >>,
        << <<>>, <<1>>, <<2>> >>, << <<>>, <<1>>, <<2>> >>,
        << <<2>>, <<3>>, <<>> >>, RaFirstFreeId),
      live |-> << {x}, {x}, {} >>]

ChainPrograms ==
  {RaChain(s1, op_reg, ndefs) : op_reg \in {NotFixed, 0, 2}, ndefs \in 0..2}

\* an if: x is defined in block 1 and read in the merge block 4; the then
\* block 2 reads it from a fixed register or not, and with_phi adds
\* y = phi(y2, y3) to the merge block
RaIf(rc, op_reg, with_phi) ==
  LET x == Temp(1, rc)
      y2 == Temp(2, rc)
      y3 == Temp(3, rc)
      y == Temp(4, rc)
      phi == RInstr(0, IF rc.type = "vgpr" THEN "p_phi" ELSE "p_linear_phi",
                    <<ROperand(y2), ROperand(y3)>>, <<RDefinition(y)>>)
      opt(i) == IF with_phi THEN <<i>> ELSE <<>>
  IN [p |-> RProgram(
        << <<RMov(x), RBranch>>,
           opt(RMov(y2)) \o <<RUse("s_cmp_eq_u32", <<ROperandAt(x, op_reg)>>), RBranch>>,
           opt(RMov(y3)) \o <<RBranch>>,
           opt(phi) \o <<RUse("exp", <<ROperand(x)>> \o opt(ROperand(y)))>> >>,
        << <<>>, <<1>>, <<1>>, <<2, 3>> >>, << <<>>, <<1>>, <<1>>, <<2, 3>> >>,
        << <<2, 3>>, <<4>>, <<4>>, <<>> >>, RaFirstFreeId),
      live |-> << {x}, {x} \cup (IF with_phi THEN {y2} ELSE {}),
                  {x} \cup (IF with_phi THEN {y3} ELSE {}), {} >>]

IfPrograms ==
  {RaIf(rc[1], IF op_reg = NotFixed THEN NotFixed ELSE op_reg + rc[2], with_phi) :
     rc \in {<<s1, 0>>, <<v1, FirstVgpr>>}, op_reg \in {NotFixed, 0, 2}, with_phi \in BOOLEAN}

\* a loop: x and i0 are defined in block 1; block 2 is the loop, with
\* i = phi(i0, i1), a read of x (from a fixed register or not) and
\* i1 = s_add_u32 i, 1; block 3 reads x and i1
RaLoop(rc, op_reg, exit_first) ==
  LET x == Temp(1, rc)
      i0 == Temp(2, rc)
      i == Temp(3, rc)
      i1 == Temp(4, rc)
      phi == RInstr(0, IF rc.type = "vgpr" THEN "p_phi" ELSE "p_linear_phi",
                    <<ROperand(i0), ROperand(i1)>>, <<RDefinition(i)>>)
  IN [p |-> RProgram(
        << <<RMov(x), RMov(i0), RBranch>>,
           <<phi, RUse("s_cmp_eq_u32", <<ROperandAt(x, op_reg)>>),
             ROp("s_add_u32", <<ROperand(i), RConst(1)>>, i1), RBranch>>,
           <<RUse("exp", <<ROperand(x), ROperand(i1)>>)>> >>,
        << <<>>, <<1, 2>>, <<2>> >>, << <<>>, <<1, 2>>, <<2>> >>,
        << <<2>>, IF exit_first THEN <<3, 2>> ELSE <<2, 3>>, <<>> >>, RaFirstFreeId),
      live |-> << {x, i0}, {x, i1}, {} >>]

LoopPrograms ==
  {RaLoop(rc[1], IF op_reg = NotFixed THEN NotFixed ELSE op_reg + rc[2], exit_first) :
     rc \in {<<s1, 0>>, <<v1, FirstVgpr>>}, op_reg \in {NotFixed, 0, 3},
     exit_first \in BOOLEAN}

\* two nested loops: x and y are defined in block 1; block 2 is the header
\* of the outer loop and reads x or not; block 3 is the inner loop, which
\* reads x (from a fixed register or not) and y; block 4 is the latch of the
\* outer loop and block 5 reads x and y
RaNest(rc, outer_use, op_reg) ==
  LET x == Temp(1, rc)
      y == Temp(2, rc)
  IN [p |-> RProgram(
        << <<RMov(x), RMov(y), RBranch>>,
           (IF outer_use THEN <<RUse("s_cmp_eq_u32", <<ROperand(x)>>)>> ELSE <<>>)
             \o <<RBranch>>,
           <<RUse("s_cmp_eq_u32", <<ROperandAt(x, op_reg), ROperand(y)>>), RBranch>>,
           <<RBranch>>,
           <<RUse("exp", <<ROperand(x), ROperand(y)>>)>> >>,
        << <<>>, <<1, 4>>, <<2, 3>>, <<3>>, <<4>> >>,
        << <<>>, <<1, 4>>, <<2, 3>>, <<3>>, <<4>> >>,
        << <<2>>, <<3>>, <<3, 4>>, <<2, 5>>, <<>> >>, RaFirstFreeId),
      live |-> << {x, y}, {x, y}, {x, y}, {x, y}, {} >>]

NestPrograms ==
  {RaNest(rc[1], outer_use, IF op_reg = NotFixed THEN NotFixed ELSE op_reg + rc[2]) :
     rc \in {<<s1, 0>>, <<v1, FirstVgpr>>}, outer_use \in BOOLEAN, op_reg \in {NotFixed, 3}}

RaPrograms ==
  MacPrograms \cup FixedPrograms \cup SplitPrograms \cup ChainPrograms \cup IfPrograms
    \cup LoopPrograms \cup NestPrograms

RaProgFields ==
  {"blocks", "heap", "allocationID", "logical_predecessors", "linear_predecessors",
   "linear_successors", "vgpr_demand", "sgpr_demand"}

\* the program and the locals of register_allocation as one record, and back
RaState == rprog @@ rctx

RaProg(st) == [f \in RaProgFields |-> st[f]]

RaLocals(st) == [f \in DOMAIN st \ RaProgFields |-> st[f]]

RaInit ==
  /\ DivIdle /\ LiveIdle /\ BoolIdle /\ SpillIdle /\ AsmIdle /\ GrIdle /\ NuIdle
  /\ \E s \in RaPrograms : rprog = s.p /\ rctx = RaCtx(s.p, s.live)
  /\ rblock = 0
  /\ rpc = "kills"

\* 417-464
RaKills ==
  /\ rpc = "kills"
  /\ \E st \in {compute_kills(RaState, Len(rprog.blocks))} :
       rprog' = RaProg(st) /\ rctx' = RaLocals(st)
  /\ rblock' = 1
  /\ rpc' = "blocks"
  /\ UNCHANGED <<divVars, liveVars, boolVars, spillVars, asmVars, grVars, nuVars>>

\* 466-698: one block.  The read of the erased phi_map node (414) either
\* finds the node as it was or ends the process.
RaBlock ==
  /\ rpc = "blocks" /\ rblock <= Len(rprog.blocks)
  /\ \E st \in {allocate_block([RaState EXCEPT !.erased_read = FALSE], rblock)} :
     \E outcome \in {"intact", "fault"} :
       IF st.erased_read /\ outcome = "fault"
       THEN rpc' = "aborted" /\ UNCHANGED <<rprog, rctx, rblock>>
       ELSE /\ rprog' = RaProg(st) /\ rctx' = RaLocals(st)
            /\ rblock' = rblock + 1
            /\ rpc' = rpc
  /\ UNCHANGED <<divVars, liveVars, boolVars, spillVars, asmVars, grVars, nuVars>>

\* 700-712
RaMerge ==
  /\ rpc = "blocks" /\ rblock > Len(rprog.blocks)
  /\ \E st \in {merge_phis(RaState)} : rprog' = RaProg(st) /\ rctx' = RaLocals(st)
  /\ rpc' = "done"
  /\ UNCHANGED rblock
  /\ UNCHANGED <<divVars, liveVars, boolVars, spillVars, asmVars, grVars, nuVars>>

RaNext == RaKills \/ RaBlock \/ RaMerge

SpecRA == RaInit /\ [][RaNext]_vars

\* ======================================================================
\* emit_program (aco_assembler)
\* ======================================================================

RECURSIVE Pow2(_)
Pow2(n) == IF n = 0 THEN 1 ELSE 2 * Pow2(n - 1)

\* a uint32_t is the function of its 32 bits, bit 0 the lowest
Bits(x) == [i \in 0..31 |-> IF i < 31 THEN (x \div Pow2(i)) % 2 ELSE 0]

\* x << n
Shl(w, n) == [i \in 0..31 |-> IF i >= n THEN w[i - n] ELSE 0]

\* a | b
Or32(a, b) == [i \in 0..31 |-> IF a[i] = 1 \/ b[i] = 1 THEN 1 ELSE 0]

\* 0xFF & x
Low8(w) == [i \in 0..31 |-> IF i < 8 THEN w[i] ELSE 0]

\* the number held by the n bits of w from bit k on
RECURSIVE Field(_, _, _)
Field(w, k, n) == IF n = 0 THEN 0 ELSE w[k] + 2 * Field(w, k + 1, n - 1)

exec == 126

\* an operand of an instruction after register allocation: its register,
\* and the value of a literal
AOperand(reg) == [reg |-> reg, isLiteral |-> FALSE, value |-> 0]

ALiteral(value) == [reg |-> 255, isLiteral |-> TRUE, value |-> value]

\* Operand(): undefined, fixed to register 128
AUndef == AOperand(128)

\* an instruction: opcode is its name and hw the number of
\* opcode_infos[opcode].opcode; definitions holds the registers of the
\* definitions; imm and block are the fields of a SOPP_instruction (block 0:
\* no block), the last five fields those of an Export_instruction
AInstr(format, opcode, hw, operands, definitions) ==
  [format |-> format, opcode |-> opcode, hw |-> hw,
   operands |-> operands, definitions |-> definitions,
   imm |-> 0, block |-> 0,
   enabled_mask |-> 0, dest |-> 0, compressed |-> FALSE,
   done |-> FALSE, valid_mask |-> FALSE]

\* the null export of fix_exports (628-635)
null_export ==
  [AInstr("EXP", "exp", 0, <<AUndef, AUndef, AUndef, AUndef>>, <<>>)
     EXCEPT !.enabled_mask = 0, !.compressed = FALSE, !.done = TRUE,
            !.valid_mask = TRUE, !.dest = 9]

Bit(b) == IF b THEN 1 ELSE 0

\* emit_instruction of the assembler (356-600): the words of one instruction are appended to
\* out, and a SOPP instruction with a block is entered into ctx.branches under
\* the index of its word
asm_emit_instruction(ctx, o, instr) ==
  LET nops == Len(instr.operands)
      ndefs == Len(instr.definitions)
      words ==
        CASE instr.format = "SOP1" ->
               <<Or32(Or32(Or32(Shl(Bits(381), 23),
                                IF ndefs > 0 THEN Shl(Bits(instr.definitions[1]), 16) ELSE Bits(0)),
                           Shl(Bits(instr.hw), 8)),
                      IF nops > 0 THEN Bits(instr.operands[1].reg) ELSE Bits(0))>>
          [] instr.format = "SOPP" ->
               <<Or32(Or32(Shl(Bits(383), 23), Shl(Bits(instr.hw), 16)), Bits(U16(instr.imm)))>>
          [] instr.format = "EXP" ->
               <<Or32(Or32(Or32(Or32(Or32(Shl(Bits(49), 26),
                                          Shl(Bits(Bit(instr.valid_mask)), 12)),
                                     Shl(Bits(Bit(instr.done)), 11)),
                                Shl(Bits(Bit(instr.compressed)), 10)),
                           Shl(Bits(instr.dest), 4)),
                      Bits(instr.enabled_mask)),
                 Or32(Or32(Or32(Low8(Bits(instr.operands[1].reg)),
                                Shl(Low8(Bits(instr.operands[2].reg)), 8)),
                           Shl(Low8(Bits(instr.operands[3].reg)), 16)),
                      Shl(Low8(Bits(instr.operands[4].reg)), 24))>>
          [] instr.format = "PSEUDO" -> <<>>
      lits == {i \in 1..nops : instr.operands[i].isLiteral}
      literal ==
        IF lits = {} THEN <<>>
        ELSE <<Bits(instr.operands[CHOOSE i \in lits : \A j \in lits : i <= j].value)>>
  IN [ctx |-> IF instr.format = "SOPP" /\ instr.block # 0
              THEN [ctx EXCEPT !.branches = @ \cup {<<Len(o), instr.block>>}]
              ELSE ctx,
      out |-> o \o words \o literal]

\* emit_block (602-606), from instruction k of the block on
RECURSIVE emit_block(_, _, _, _)
emit_block(ctx, o, instrs, k) ==
  IF k > Len(instrs) THEN [ctx |-> ctx, out |-> o]
  ELSE With(asm_emit_instruction(ctx, o, instrs[k]),
            LAMBDA r : emit_block(r.ctx, r.out, instrs, k + 1))

\* the loop of fix_exports over the instructions of a block (615-626), from
\* instruction k downwards: the position of the export it finds, 0 when it
\* leaves the loop without one
RECURSIVE find_export(_, _)
find_export(instrs, k) ==
  IF k = 0 THEN 0
  ELSE IF instrs[k].format = "EXP" THEN k
  ELSE IF Len(instrs[k].definitions) > 0 /\ instrs[k].definitions[1] = exec THEN 0
  ELSE IF instrs[k].opcode = "s_endpgm" THEN 0
  ELSE find_export(instrs, k - 1)

\* fix_exports (609-642), from block b downwards: an export found is marked
\* and the function returns; otherwise a null export is inserted before the
\* last instruction of the block and the loop goes on to the block before
RECURSIVE fix_exports(_, _)
fix_exports(blocks, b) ==
  IF b = 0 THEN blocks
  ELSE LET instrs == blocks[b]
           n == Len(instrs)
           k == find_export(instrs, n - 1)
       IN IF k # 0
          THEN [blocks EXCEPT ![b][k].done = TRUE, ![b][k].valid_mask = TRUE]
          ELSE fix_exports(
                 [blocks EXCEPT ![b] = SubSeq(instrs, 1, n - 1) \o <<null_export>>
                                         \o <<instrs[n]>>],
                 b - 1)

\* fix_branches with the offset counted from the word of the branch itself
RECURSIVE fix_branches_no_skip(_, _)
fix_branches_no_skip(ctx, o) ==
  IF ctx.branches = {} THEN o
  ELSE LET branch == CHOOSE x \in ctx.branches : \A y \in ctx.branches : x[1] <= y[1]
           offset == ctx.block_offset[branch[2]] - branch[1]
       IN fix_branches_no_skip([ctx EXCEPT !.branches = @ \ {branch}],
                               [o EXCEPT ![branch[1] + 1] = Or32(@, Bits(U16(offset)))])

\* fix_branches (644-651): the offset of every branch is or-ed into its word
RECURSIVE fix_branches(_, _)
fix_branches(ctx, o) ==
  IF ctx.branches = {} THEN o
  ELSE LET branch == CHOOSE x \in ctx.branches : \A y \in ctx.branches : x[1] <= y[1]
           offset == ctx.block_offset[branch[2]] - branch[1] - 1
       IN fix_branches([ctx EXCEPT !.branches = @ \ {branch}],
                       [o EXCEPT ![branch[1] + 1] = Or32(@, Bits(U16(offset)))])

\* ---- the programs handed to emit_program ----

s_endpgm == AInstr("SOPP", "s_endpgm", 1, <<>>, <<>>)

\* a branch to a block: create_instruction clears imm
ABranch(opcode, hw, target) == [AInstr("SOPP", opcode, hw, <<>>, <<>>) EXCEPT !.block = target]

s_waitcnt(imm) == [AInstr("SOPP", "s_waitcnt", 12, <<>>, <<>>) EXCEPT !.imm = imm]

\* an export of four vector registers as the instruction selection leaves it
AExport(dest, v) ==
  [AInstr("EXP", "exp", 0,
          <<AOperand(256 + v), AOperand(256 + v + 1), AOperand(256 + v + 2),
            AOperand(256 + v + 3)>>, <<>>)
     EXCEPT !.enabled_mask = 15, !.dest = dest]

\* s_mov_b64 exec, s[2:3]
AWriteExec == AInstr("SOP1", "s_mov_b64", 1, <<AOperand(2)>>, <<exec>>)

\* s_mov_b32 s4, literal
AMovLiteral == AInstr("SOP1", "s_mov_b32", 0, <<ALiteral(1065353216)>>, <<4>>)

APseudo == AInstr("PSEUDO", "p_logical_end", 0, <<>>, <<>>)

MaxFill == 1

ABodies == {"none", "exp", "exp_exec", "exec", "pseudo"}

ABody(kind) ==
  CASE kind = "none" -> <<>>
    [] kind = "exp" -> <<AExport(0, 0)>>
    [] kind = "exp_exec" -> <<AExport(0, 0), AWriteExec>>
    [] kind = "exec" -> <<AWriteExec>>
    [] kind = "pseudo" -> <<APseudo>>

RECURSIVE AFill(_)
AFill(n) == IF n = 0 THEN <<>> ELSE <<AMovLiteral>> \o AFill(n - 1)

\* three blocks: the first ends with a conditional branch over the second,
\* the second with a branch to block t2, the third with s_endpgm
AsmProgram(e1, e2, e3, fill, t2) ==
  << ABody(e1) \o <<ABranch("s_cbranch_scc0", 4, 3)>>,
     AFill(fill) \o ABody(e2) \o <<s_waitcnt(112), ABranch("s_branch", 2, t2)>>,
     ABody(e3) \o <<s_endpgm>> >>

\* one block
AsmStraight(e1, fill) == << AFill(fill) \o ABody(e1) \o <<s_endpgm>> >>

AsmPrograms ==
  {AsmProgram(e1, e2, e3, fill, t2) :
     e1 \in ABodies, e2 \in {"none", "exp"}, e3 \in ABodies, fill \in 0..MaxFill,
     t2 \in 1..3}
  \cup {AsmStraight(e1, fill) : e1 \in ABodies, fill \in 0..MaxFill}

\* ---- emit_program (653-669) ----

AsmInit ==
  /\ DivIdle /\ LiveIdle /\ BoolIdle /\ SpillIdle /\ RaIdle /\ GrIdle /\ NuIdle
  /\ aprog \in AsmPrograms
  /\ actx = [branches |-> {}, block_offset |-> [b \in 1..Len(aprog) |-> 0]]
  /\ aout = <<>>
  /\ ablock = 0
  /\ apc = "exports"

\* fix_exports(ctx, out, program)
AsmFixExports ==
  /\ apc = "exports"
  /\ aprog' = fix_exports(aprog, Len(aprog))
  /\ ablock' = 1
  /\ apc' = "emit"
  /\ UNCHANGED <<actx, aout>>
  /\ UNCHANGED <<divVars, liveVars, boolVars, spillVars, raVars, grVars, nuVars>>

\* one iteration of the loop over the blocks
AsmEmitBlock ==
  /\ apc = "emit"
  /\ \E r \in {emit_block([actx EXCEPT !.block_offset[ablock] = Len(aout)], aout,
                            aprog[ablock], 1)} :
       actx' = r.ctx /\ aout' = r.out
  /\ ablock' = ablock + 1
  /\ apc' = IF ablock = Len(aprog) THEN "branches" ELSE "emit"
  /\ UNCHANGED aprog
  /\ UNCHANGED <<divVars, liveVars, boolVars, spillVars, raVars, grVars, nuVars>>

\* fix_branches(ctx, out)
AsmFixBranches ==
  /\ apc = "branches"
  /\ aout' = fix_branches(actx, aout)
  /\ apc' = "done"
  /\ UNCHANGED <<aprog, actx, ablock>>
  /\ UNCHANGED <<divVars, liveVars, boolVars, spillVars, raVars, grVars, nuVars>>

AsmNext == AsmFixExports \/ AsmEmitBlock \/ AsmFixBranches

SpecAsm == AsmInit /\ [][AsmNext]_vars

(***************************************************************************)
(*                      _get_reg, the search with moves                    *)
(***************************************************************************)

\* 0xFFFF in reg_file: the area is blocked
Blocked == 65535

\* 137-156: the dwords of the window from j on.  k counts the dwords that
\* are not free; stop is set at a blocked dword, at the dword after
\* num_moves and at a variable that is not smaller than the request
RECURSIVE window_vars(_, _, _, _, _, _, _, _)
window_vars(reg_file, assignments, j, reg_hi, n, num_moves, k, vs) ==
  IF j > reg_hi THEN [stop |-> FALSE, k |-> k, vars |-> vs]
  ELSE IF reg_file[j] = 0
       THEN window_vars(reg_file, assignments, j + 1, reg_hi, n, num_moves, k, vs)
  ELSE IF reg_file[j] = Blocked \/ k + 1 > num_moves
       THEN [stop |-> TRUE, k |-> k + 1, vars |-> vs]
  ELSE IF assignments[reg_file[j]].rc.size >= n
       THEN [stop |-> TRUE, k |-> k + 1, vars |-> vs]
  ELSE window_vars(reg_file, assignments, j + 1, reg_hi, n, num_moves, k + 1,
                   vs \cup {reg_file[j]})

\* 167-172: the stride of a variable that is moved
var_stride(rc) ==
  IF rc.type = "sgpr" /\ rc.size > 3 THEN 4
  ELSE IF rc.type = "sgpr" /\ rc.size = 2 THEN 2 ELSE 1

\* 164-192: the variables of the window are moved, in the order of their
\* ids.  A variable for which the search without moves fails leaves success
\* false: the searches with moves of 176-181 cannot set it again, and what
\* they change is dropped with the window.
RECURSIVE move_vars(_, _, _, _, _, _)
move_vars(register_file, assignments, parallelcopy, ids, lb, ub) ==
  IF ids = <<>> THEN [success |-> TRUE, register_file |-> register_file,
                      parallelcopy |-> parallelcopy]
  ELSE With(assignments[ids[1]], LAMBDA var :
         With(get_reg_simple(register_file, lb, ub, var.rc.size, var_stride(var.rc)),
              LAMBDA res :
           IF res < 0 THEN [success |-> FALSE, register_file |-> register_file,
                            parallelcopy |-> parallelcopy]
           ELSE move_vars(set_regs(register_file, res, var.rc.size, Blocked), assignments,
                          Append(parallelcopy,
                                 [id |-> ids[1], rc |-> var.rc, from |-> var.reg, to |-> res]),
                          Tail(ids), lb, ub)))

\* the elements of a set of ids, in increasing order (std::set<unsigned>)
RECURSIVE id_order(_)
id_order(s) ==
  IF s = {} THEN <<>>
  ELSE With(CHOOSE x \in s : \A y \in s : x <= y, LAMBDA x : <<x>> \o id_order(s \ {x}))

\* 126-129: the test of the two edges of the window
edges_ok(reg_file, lb, ub, reg_lo, reg_hi) ==
  /\ ~(reg_lo > lb + 1 /\ reg_file[reg_lo] = reg_file[reg_lo - 1])
  /\ ~(reg_hi < ub - 1 /\ reg_file[reg_hi] = reg_file[reg_hi + 1])

\* 122-204: the sliding window, from reg_lo on
RECURSIVE get_reg_window(_, _, _, _, _, _, _, _)
get_reg_window(reg_file, assignments, lb, ub, n, stride, num_moves, reg_lo) ==
  LET reg_hi == reg_lo + n - 1
  IN IF reg_hi >= ub
     THEN [found |-> FALSE, reg |-> 0, reg_file |-> reg_file, pc |-> <<>>]
     ELSE IF ~edges_ok(reg_file, lb, ub, reg_lo, reg_hi)
     THEN get_reg_window(reg_file, assignments, lb, ub, n, stride, num_moves,
                         reg_lo + stride)
     ELSE With(window_vars(reg_file, assignments, reg_lo, reg_hi, n, num_moves, 0, {}),
               LAMBDA w :
       IF w.stop
       THEN get_reg_window(reg_file, assignments, lb, ub, n, stride, num_moves,
                           reg_lo + stride)
       ELSE With(move_vars(set_regs(reg_file, reg_lo, n, Blocked), assignments, <<>>,
                           id_order(w.vars), lb, ub), LAMBDA mv :
              IF mv.success
              THEN [found |-> TRUE, reg |-> reg_lo,
                    reg_file |-> set_regs(mv.register_file, reg_lo, n, 0),
                    pc |-> mv.parallelcopy]
              ELSE get_reg_window(reg_file, assignments, lb, ub, n, stride, num_moves,
                                  reg_lo + stride)))

\* 91-205: _get_reg
get_reg_moves(reg_file, assignments, lb, ub, n, stride, num_moves) ==
  IF num_moves = 0
  THEN With(get_reg_simple(reg_file, lb, ub, n, stride), LAMBDA reg :
         [found |-> reg >= 0, reg |-> IF reg < 0 THEN 0 ELSE reg,
          reg_file |-> reg_file, pc |-> <<>>])
  ELSE get_reg_window(reg_file, assignments, lb, ub, n, stride, num_moves, lb)

\* the registers of the bank that the call may use: ub - lb
GrRegs == 7

\* an item of a register file is a free register (0) or a variable of one
\* or two dwords (1, 2);
\* the register files of n registers, as the sequence of their items
RECURSIVE GrLayouts(_)
GrLayouts(n) ==
  IF n = 0 THEN {<<>>}
  ELSE {<<it>> \o l : it \in {0, 1}, l \in GrLayouts(n - 1)}
         \cup (IF n >= 2 THEN {<<2>> \o l : l \in GrLayouts(n - 2)} ELSE {})

\* the register at which item k of a layout starts
RECURSIVE item_reg(_, _, _)
item_reg(layout, lb, k) ==
  IF k = 1 THEN lb
  ELSE item_reg(layout, lb, k - 1) + (IF layout[k - 1] = 2 THEN 2 ELSE 1)

\* assignments of the variables of a layout: item k is the variable k
layout_assignments(layout, type, lb) ==
  [k \in {i \in DOMAIN layout : layout[i] # 0} |->
     [reg |-> item_reg(layout, lb, k), rc |-> RC(type, layout[k], type = "sgpr")]]

\* 473-477: the register file that holds these variables
layout_reg_file(layout, type, lb, n) ==
  [r \in lb..(lb + n - 1) |->
     With(layout_assignments(layout, type, lb), LAMBDA a :
       IF \E k \in DOMAIN a : r \in a[k].reg..(a[k].reg + a[k].rc.size - 1)
       THEN CHOOSE k \in DOMAIN a : r \in a[k].reg..(a[k].reg + a[k].rc.size - 1)
       ELSE 0)]

\* 212-224: the bounds and the stride get_reg passes on
GrArgs(type, n, num_moves) ==
  [lb |-> IF type = "vgpr" THEN FirstVgpr ELSE 0,
   ub |-> (IF type = "vgpr" THEN FirstVgpr ELSE 0) + GrRegs,
   size |-> n,
   stride |-> IF type = "vgpr" THEN 1 ELSE IF n = 2 THEN 2 ELSE IF n >= 4 THEN 4 ELSE 1,
   num_moves |-> num_moves]

\* 225-233: get_reg calls _get_reg with k moves after the calls with fewer
\* moves have found nothing
GrCallable(reg_file, assignments, a) ==
  \A k \in 0..(a.num_moves - 1) :
     ~get_reg_moves(reg_file, assignments, a.lb, a.ub, a.size, a.stride, k).found

\* a scalar pair sits at an even register
GrAligned(assignments) ==
  \A k \in DOMAIN assignments :
     (assignments[k].rc.type = "sgpr" /\ assignments[k].rc.size = 2)
       => assignments[k].reg % 2 = 0

GrInit ==
  /\ DivIdle /\ LiveIdle /\ BoolIdle /\ SpillIdle /\ RaIdle /\ AsmIdle /\ NuIdle
  /\ \E type \in {"sgpr", "vgpr"}, n \in {2, 3}, layout \in GrLayouts(GrRegs) :
     \E num_moves \in 1..n :
       /\ gargs = GrArgs(type, n, num_moves)
       /\ gassign = layout_assignments(layout, type, gargs.lb)
       /\ greg_file = layout_reg_file(layout, type, gargs.lb, GrRegs)
       /\ GrAligned(gassign)
       /\ GrCallable(greg_file, gassign, gargs)
  /\ gres = <<>>
  /\ gpc = "call"

\* 232-233: one call of _get_reg
GrCall ==
  /\ gpc = "call"
  /\ gres' = get_reg_moves(greg_file, gassign, gargs.lb, gargs.ub, gargs.size, gargs.stride,
                           gargs.num_moves)
  /\ gpc' = "done"
  /\ UNCHANGED <<greg_file, gassign, gargs>>
  /\ UNCHANGED <<divVars, liveVars, boolVars, spillVars, raVars, asmVars, nuVars>>

GrNext == GrCall

SpecGetReg == GrInit /\ [][GrNext]_vars

\* ======================================================================
\* compute_global_next_uses (part_001 76-187).  Blocks are numbered from 0
\* as in the program, because the pair that std::map::operator[] creates for
\* a missing temporary is (block 0, distance 0).  The maps
\* next_use_distances_start/end[b] are sets of <<Temp, <<dom, distance>> >>.
\* A distance is a sum of block sizes and loop penalties that the minimum of
\* 163 keeps below the one of the first pass, far from the end of uint32_t.
\* ======================================================================

\* the penalty for a use behind a loop (155-156)
LoopPenalty == 65535

\* a vector indexed from 0
ZeroBased(seq) == [b \in 0..(Len(seq) - 1) |-> seq[b + 1]]

\* get_dominator (76-99)
RECURSIVE get_dominator(_, _, _, _)
get_dominator(idx_a, idx_b, p, linear) ==
  IF idx_a = -1 THEN idx_b
  ELSE IF idx_b = -1 THEN idx_a
  ELSE IF idx_a = idx_b THEN idx_a
  ELSE IF idx_a > idx_b
       THEN get_dominator(IF linear THEN p.linear_idom[idx_a] ELSE p.logical_idom[idx_a],
                          idx_b, p, linear)
       ELSE get_dominator(idx_a,
                          IF linear THEN p.linear_idom[idx_b] ELSE p.logical_idom[idx_b],
                          p, linear)

\* 108-109: the distances at the end of the block plus the size of the block
add_block_size(next_uses, n) ==
  {<<e[1], <<e[2][1], e[2][2] + n>> >> : e \in next_uses}

\* 114-117: next_uses.erase of the temporaries the instruction defines
RECURSIVE erase_defs(_, _, _)
erase_defs(next_uses, defs, i) ==
  IF i > Len(defs) THEN next_uses
  ELSE erase_defs(Erase(next_uses, Temp(defs[i].id, defs[i].rc)), defs, i + 1)

\* 123-126: the operands of the instruction at idx are used there
RECURSIVE use_operands(_, _, _, _, _)
use_operands(next_uses, operands, i, block_idx, idx) ==
  IF i > Len(operands) THEN next_uses
  ELSE use_operands(IF operands[i].kind = "temp"
                    THEN Put(next_uses, Temp(operands[i].id, operands[i].rc),
                             <<block_idx, idx>>)
                    ELSE next_uses,
                    operands, i + 1, block_idx, idx)

\* 111-129: the loop from the last instruction up to the last phi; idx is
\* the index the loop stops at (-1: the block has no phi)
RECURSIVE scan_block(_, _, _, _)
scan_block(next_uses, instrs, block_idx, idx) ==
  IF idx < 0 THEN [next_uses |-> next_uses, idx |-> idx]
  ELSE With(erase_defs(next_uses, instrs[idx + 1].definitions, 1), LAMBDA nu :
         IF is_phi(instrs[idx + 1]) THEN [next_uses |-> nu, idx |-> idx]
         ELSE scan_block(use_operands(nu, instrs[idx + 1].operands, 1, block_idx, idx),
                         instrs, block_idx, idx - 1))

\* 136-147: the operands of one phi are used at the end of the predecessors
RECURSIVE phi_operands(_, _, _, _, _)
phi_operands(st, p, block_idx, instr, i) ==
  IF i > Len(instr.operands) THEN st
  ELSE With(IF instr.opcode = "p_phi" THEN p.logical_predecessors[block_idx][i]
            ELSE p.linear_predecessors[block_idx][i], LAMBDA pred_idx :
       With(Temp(instr.operands[i].id, instr.operands[i].rc), LAMBDA t :
         IF instr.operands[i].kind # "temp"
         THEN phi_operands(st, p, block_idx, instr, i + 1)
         ELSE phi_operands(
                [st EXCEPT
                   !.worklist =
                      IF \/ ~Has(st.next_use_distances_end[pred_idx], t)
                         \/ Get(st.next_use_distances_end[pred_idx], t) # <<block_idx, 0>>
                      THEN @ \cup {pred_idx} ELSE @,
                   !.next_use_distances_end[pred_idx] = Put(@, t, <<block_idx, 0>>)],
                p, block_idx, instr, i + 1)))

\* 132-150: the loop over the phis of the block, from the last to the first
RECURSIVE scan_phis(_, _, _, _, _)
scan_phis(st, p, block_idx, next_uses, idx) ==
  IF idx < 0 THEN [st |-> st, next_uses |-> next_uses]
  ELSE With(p.blocks[block_idx][idx + 1], LAMBDA instr :
         scan_phis(phi_operands(st, p, block_idx, instr, 1), p, block_idx,
                   Erase(next_uses, Temp(instr.definitions[1].id, instr.definitions[1].rc)),
                   idx - 1))

\* std::map::operator[]: a missing temporary gets the pair (0, 0)
end_or_default(m, t) == IF Has(m, t) THEN Get(m, t) ELSE <<0, 0>>

\* 158-168: one live-through temporary at the predecessors of the block; dom
\* and distance are carried from one predecessor to the next
RECURSIVE live_through_preds(_, _, _, _, _, _, _)
live_through_preds(st, p, block_idx, temp, dom, distance, i) ==
  LET preds == IF temp.rc.linear THEN p.linear_predecessors[block_idx]
               ELSE p.logical_predecessors[block_idx]
  IN IF i > Len(preds) THEN st
     ELSE
       With(preds[i], LAMBDA pred :
       With(IF p.loop_nest_depth[pred] > p.loop_nest_depth[block_idx]
            THEN distance + LoopPenalty ELSE distance, LAMBDA d1 :
       With(IF Has(st.next_use_distances_end[pred], temp)
            THEN <<get_dominator(dom, Get(st.next_use_distances_end[pred], temp)[1],
                                 p, temp.rc.linear),
                   Min(Get(st.next_use_distances_end[pred], temp)[2], d1)>>
            ELSE <<dom, d1>>, LAMBDA pair :
         live_through_preds(
           [st EXCEPT
              !.worklist =
                 IF end_or_default(st.next_use_distances_end[pred], temp) # pair
                 THEN @ \cup {pred} ELSE @,
              !.next_use_distances_end[pred] = Put(@, temp, pair)],
           p, block_idx, temp, pair[1], pair[2], i + 1))))

\* 153-169: the loop over the temporaries that are live through the block
RECURSIVE live_through(_, _, _, _)
live_through(st, p, block_idx, pairs) ==
  IF pairs = <<>> THEN st
  ELSE live_through(
         live_through_preds(st, p, block_idx, Head(pairs)[1],
                            Head(pairs)[2][1], Head(pairs)[2][2], 1),
         p, block_idx, Tail(pairs))

\* next_uses_per_block (102-171); st holds next_use_distances_start,
\* next_use_distances_end, the worklist and whether the assertion of 130
\* failed
next_uses_per_block(st, p, block_idx) ==
  With(scan_block(add_block_size(st.next_use_distances_end[block_idx],
                                 Len(p.blocks[block_idx])),
                  p.blocks[block_idx], block_idx, Len(p.blocks[block_idx]) - 1),
       LAMBDA s :
  With([st EXCEPT !.next_use_distances_start[block_idx] = s.next_uses,
                  !.assert_failed = @ \/ (block_idx = 0 /\ s.next_uses # {})],
       LAMBDA st1 :
  With(scan_phis(st1, p, block_idx, s.next_uses, s.idx), LAMBDA r :
    live_through(r.st, p, block_idx, InOrder(r.next_uses)))))

\* ---- the programs compute_global_next_uses is run on

\* T and A are defined in block 0, X is the phi of the loop header, Y is
\* defined in the loop
NuPhi(d, operands) ==
  BInstr(IF d.rc.type = "vgpr" THEN "p_phi" ELSE "p_linear_phi", "PSEUDO", operands,
         <<BDef(d.id, d.rc, "none")>>)

\* the second operand of the phi: T, defined in front of the loop, or Y
BackOperand(rc, invariant) ==
  IF invariant THEN TempOp(1, rc) ELSE TempOp(4, rc)

\* an if whose then side is a loop of one block (block 1 is its own
\* predecessor): entry 0, loop 1, exit 2, else 3, merge 4
NuSelfLoop(rc, invariant, use_in, use_after) ==
  [linear_predecessors |-> ZeroBased(<< <<>>, <<0, 1>>, <<1>>, <<0>>, <<2, 3>> >>),
   logical_predecessors |-> ZeroBased(<< <<>>, <<0, 1>>, <<1>>, <<0>>, <<2, 3>> >>),
   linear_idom |-> ZeroBased(<<-1, 0, 1, 0, 0>>),
   logical_idom |-> ZeroBased(<<-1, 0, 1, 0, 0>>),
   loop_nest_depth |-> ZeroBased(<<0, 1, 0, 0, 0>>),
   blocks |-> ZeroBased(<<
     Body(<<SDef(Temp(1, rc)), SDef(Temp(2, rc))>>, TRUE, TRUE),
     <<NuPhi(Temp(3, rc), <<TempOp(2, rc), BackOperand(rc, invariant)>>)>>
       \o Body(<<SDef(Temp(4, rc)), SUse(Temp(3, rc))>>
                 \o OptInstr(use_in, SUse(Temp(1, rc))), TRUE, TRUE),
     Body(<<>>, TRUE, TRUE),
     Body(<<>>, TRUE, TRUE),
     Body(OptInstr(use_after, SUse(Temp(1, rc))), TRUE, FALSE) >>)]

\* the same with a loop of two blocks: entry 0, header 1, latch 2, exit 3,
\* else 4, merge 5
NuLoop(rc, invariant, use_in, use_after) ==
  [linear_predecessors |-> ZeroBased(<< <<>>, <<0, 2>>, <<1>>, <<2>>, <<0>>, <<3, 4>> >>),
   logical_predecessors |-> ZeroBased(<< <<>>, <<0, 2>>, <<1>>, <<2>>, <<0>>, <<3, 4>> >>),
   linear_idom |-> ZeroBased(<<-1, 0, 1, 2, 0, 0>>),
   logical_idom |-> ZeroBased(<<-1, 0, 1, 2, 0, 0>>),
   loop_nest_depth |-> ZeroBased(<<0, 1, 1, 0, 0, 0>>),
   blocks |-> ZeroBased(<<
     Body(<<SDef(Temp(1, rc)), SDef(Temp(2, rc))>>, TRUE, TRUE),
     <<NuPhi(Temp(3, rc), <<TempOp(2, rc), BackOperand(rc, invariant)>>)>>
       \o Body(<<SUse(Temp(3, rc))>>, TRUE, TRUE),
     Body(<<SDef(Temp(4, rc))>> \o OptInstr(use_in, SUse(Temp(1, rc))), TRUE, TRUE),
     Body(<<>>, TRUE, TRUE),
     Body(<<>>, TRUE, TRUE),
     Body(OptInstr(use_after, SUse(Temp(1, rc))), TRUE, FALSE) >>)]

NuPrograms ==
  {NuSelfLoop(rc, invariant, use_in, use_after) :
     rc \in {s1, v1}, invariant \in BOOLEAN, use_in \in BOOLEAN, use_after \in BOOLEAN}
  \cup
  {NuLoop(rc, invariant, use_in, use_after) :
     rc \in {s1, v1}, invariant \in BOOLEAN, use_in \in BOOLEAN, use_after \in BOOLEAN}

\* nsteps counts the calls of next_uses_per_block up to MaxNuSteps; from
\* there on only whether the count is even or odd is kept
MaxNuSteps == 12

\* compute_global_next_uses 175-179: every block is in the worklist
NuInit ==
  /\ DivIdle /\ LiveIdle /\ BoolIdle /\ SpillIdle /\ RaIdle /\ AsmIdle /\ GrIdle
  /\ nprog \in NuPrograms
  /\ nstart = [b \in DOMAIN nprog.blocks |-> {}]
  /\ nend = [b \in DOMAIN nprog.blocks |-> {}]
  /\ nworklist = DOMAIN nprog.blocks
  /\ nsteps = 0
  /\ npc = "run"

\* the block with the highest index of the worklist (*worklist.rbegin())
LastOf(wl) == CHOOSE b \in wl : \A c \in wl : c <= b

\* one iteration of the loop of compute_global_next_uses (181-186)
NuStep ==
  /\ npc = "run"
  /\ nworklist # {}
  /\ \E r \in {next_uses_per_block(
                 [next_use_distances_start |-> nstart, next_use_distances_end |-> nend,
                  worklist |-> nworklist \ {LastOf(nworklist)}, assert_failed |-> FALSE],
                 nprog, LastOf(nworklist))} :
       /\ nstart' = r.next_use_distances_start
       /\ nend' = r.next_use_distances_end
       /\ nworklist' = r.worklist
       /\ npc' = IF r.assert_failed THEN "abort" ELSE "run"
  /\ nsteps' = IF nsteps < MaxNuSteps THEN nsteps + 1 ELSE MaxNuSteps - 1
  /\ UNCHANGED nprog
  /\ UNCHANGED <<divVars, liveVars, boolVars, spillVars, raVars, asmVars, grVars>>

\* the worklist is empty
NuReturn ==
  /\ npc = "run"
  /\ nworklist = {}
  /\ npc' = "done"
  /\ UNCHANGED <<nprog, nstart, nend, nworklist, nsteps>>
  /\ UNCHANGED <<divVars, liveVars, boolVars, spillVars, raVars, asmVars, grVars>>

NuNext == NuStep \/ NuReturn

SpecNextUses == NuInit /\ [][NuNext]_vars

\* the loop is not abandoned half way
SpecNextUsesFair == SpecNextUses /\ WF_vars(NuNext)
\* ---- claims about nir_divergence_analysis

\* C2: divergent[] is monotone: once divergent[i] is true, no later visit of
\* any block, in any worklist iteration, sets it back to false.
C2_DivergenceMonotone ==
  [][\A i \in DOMAIN divergent : divergent[i] => divergent'[i]]_vars

\* C2 witness: the pass ended after every block was queued again at least
\* twice, so values already divergent were visited again.
C2_Witness ==
  /\ dpc = "done" /\ refills >= 2
  /\ \E i \in DOMAIN divergent : divergent[i]
  /\ \E ins \in ShaderInstrs : ins.type = "phi" /\ divergent[ins.dest]

\* C3: the pass terminates: the worklist becomes empty and t is returned, and
\* the worklist is refilled at most once per ssa value.
C3_DivergenceTerminates ==
  /\ [](dpc # "idle" => refills <= shader.nssa)
  /\ <>(dpc = "done")

\* C3 witness: a run that ended after the worklist was refilled three times.
C3_Witness == dpc = "done" /\ refills >= 3 /\ worklist = <<>>

GammaPhis ==
  {ins \in ShaderInstrs : ins.type = "phi" /\ shader.prevKind[ins.block] = "if"}

SomeOperandDivergent(ins) == \E i \in DOMAIN ins.srcs : divergent[ins.srcs[i].ssa]

\* C10 as stated: at the fixed point a gamma phi is divergent iff the
\* condition of the if is divergent or some operand is divergent.
C10_GammaIffCondOrOperand ==
  dpc = "done" =>
    \A ins \in GammaPhis :
       divergent[ins.dest] <=>
         (divergent[shader.prevIf[ins.block]] \/ SomeOperandDivergent(ins))

\* C10 amended: at the fixed point a gamma phi is divergent iff some operand
\* is divergent, or the condition of the if is divergent and at least two
\* operands are not defined by an undef instruction.
C10_GammaAmended ==
  dpc = "done" =>
    \A ins \in GammaPhis :
       divergent[ins.dest] <=>
         \/ SomeOperandDivergent(ins)
         \/ NonUndef(ins) >= 2 /\ divergent[shader.prevIf[ins.block]]

\* C10 witness: a gamma phi of two uniform, defined operands under a
\* divergent condition, marked divergent at the fixed point.
C10_Witness ==
  /\ dpc = "done"
  /\ \E ins \in GammaPhis :
        /\ NonUndef(ins) >= 2 /\ ~SomeOperandDivergent(ins)
        /\ divergent[shader.prevIf[ins.block]] /\ divergent[ins.dest]

\* ---- claims about live_var_analysis

Blocks == 1..lprog.nblocks

Temps == DOMAIN lprog.rc

\* temps read by a non-phi instruction of block b before any instruction of
\* b defines them
UpwardExposed(b) ==
  {t \in Temps :
     \E i \in DOMAIN lprog.blocks[b] :
        /\ ~is_phi(lprog.blocks[b][i])
        /\ t \in Range(lprog.blocks[b][i].operands)
        /\ \A j \in 1..(i - 1) : t \notin Range(lprog.blocks[b][j].definitions)}

DefinedIn(b) ==
  {t \in Temps : \E i \in DOMAIN lprog.blocks[b] :
                    t \in Range(lprog.blocks[b][i].definitions)}

\* temps that are operands of a phi of some successor for predecessor b
PhiOperandsFor(b) ==
  {t \in Temps :
     \E succ \in Blocks : \E i \in DOMAIN lprog.blocks[succ] :
        LET insn == lprog.blocks[succ][i]
            preds == IF insn.opcode = "p_phi"
                     THEN lprog.logical_predecessors[succ]
                     ELSE lprog.linear_predecessors[succ]
        IN /\ is_phi(insn)
           /\ \E k \in DOMAIN preds : preds[k] = b /\ insn.operands[k] = t}

LiveInOf(out, b) == UpwardExposed(b) \cup (out[b] \ DefinedIn(b))

\* the three sources of the claim, from given live-out sets
ExitSetOf(out, b) ==
  {t \in Temps :
     \/ /\ is_linear(lprog, t)
        /\ \E succ \in Blocks : /\ b \in Range(lprog.linear_predecessors[succ])
                                /\ t \in LiveInOf(out, succ)
     \/ /\ ~is_linear(lprog, t)
        /\ \E succ \in Blocks : /\ b \in Range(lprog.logical_predecessors[succ])
                                /\ t \in LiveInOf(out, succ)
     \/ t \in PhiOperandsFor(b)}

\* the least solution of the liveness equations, by iteration from the
\* empty sets
RECURSIVE LiveAtExit(_)
LiveAtExit(out) ==
  LET nxt == [b \in Blocks |-> ExitSetOf(out, b)]
  IN IF nxt = out THEN out ELSE LiveAtExit(nxt)

\* C6: at termination live_out[B] is exactly the set of temps live at B's
\* exit: the linear temps live-in to a linear successor, the vector temps
\* live-in to a logical successor, the phi operands that belong to
\* predecessor B, and nothing else.
C6_LiveOutExact ==
  lpc = "done" =>
    live_out = LiveAtExit([b \in Blocks |-> {}])

\* C6 witness: the analysis ended on the divergent-if program,
\* with a vector temp live at the exit of a block through a logical
\* edge only, a linear temp live at the exit of the invert block, and a phi
\* operand live at the exit of its predecessor.
C6_Witness ==
  /\ lpc = "done"
  /\ lprog.nblocks = 5
  /\ \E t \in live_out[3] : is_linear(lprog, t)
  /\ \E t \in live_out[1] : ~is_linear(lprog, t) /\ t \notin live_out[3]
  /\ \E b \in Blocks : \E t \in PhiOperandsFor(b) :
        t \in live_out[b] /\ t \notin LiveInOf(live_out, 5)

\* ---- claims about lower_bool_phis

BBlocks == 1..bprog.nblocks

\* the positions of the boolean phis of block x of program p
BoolPhisOf(p, x) ==
  {i \in DOMAIN p.blocks[x] :
     /\ p.blocks[x][i].opcode = "p_phi"
     /\ p.blocks[x][i].definitions[1].rc = s2}

\* the definitions of the boolean phis of the program handed to the pass
LoweredDefs(x) == {borig.blocks[x][i].definitions[1] : i \in BoolPhisOf(borig, x)}

\* an instruction the pass created defines a temp allocated by the pass
IsInserted(ins) ==
  \E k \in DOMAIN ins.definitions : ins.definitions[k].id >= borig.allocationID

IsCopyOf(ins, d) ==
  ~IsInserted(ins) /\ ins.opcode = "s_mov_b64" /\ ins.definitions = <<d>>

IsPhi(ins) == ins.opcode \in {"p_phi", "p_linear_phi"}

RECURSIVE FilterSeq(_, _)
FilterSeq(seq, S) ==
  IF seq = <<>> THEN <<>>
  ELSE (IF Head(seq) \in S THEN <<Head(seq)>> ELSE <<>>) \o FilterSeq(Tail(seq), S)

\* the instructions of block x that the pass neither created nor lowered
OriginalOf(p, x) ==
  {ins \in Range(p.blocks[x]) :
     /\ ~IsInserted(ins)
     /\ \A d \in LoweredDefs(x) : d \notin Range(ins.definitions)}

\* the accumulator at the start of a block with several linear
\* predecessors is the linear phi the pass put there
IsMergeAccumulator(x, op) ==
  /\ op.kind = "temp" /\ op.rc = s2
  /\ \E k \in DOMAIN bprog.blocks[x] :
        /\ bprog.blocks[x][k].opcode = "p_linear_phi"
        /\ IsInserted(bprog.blocks[x][k])
        /\ bprog.blocks[x][k].definitions[1].id = op.id

\* C7: after lower_bool_phis no block contains a p_phi with an s2
\* definition; each such phi is replaced by exactly one s_mov_b64 that writes
\* the phi's definition from the accumulator of the merge block, placed
\* after all phis that remain in the block and before all its original
\* non-phi instructions; all other instructions keep their relative order.
C7_BoolPhisReplaced ==
  bpc = "done" =>
    \A x \in BBlocks :
      LET instrs == bprog.blocks[x] IN
      /\ BoolPhisOf(bprog, x) = {}
      /\ \A d \in LoweredDefs(x) :
           LET W == {k \in DOMAIN instrs : d \in Range(instrs[k].definitions)} IN
           /\ Cardinality(W) = 1
           /\ \A y \in BBlocks \ {x} : \A ins \in Range(bprog.blocks[y]) :
                 d \notin Range(ins.definitions)
           /\ \A k \in W :
                /\ IsCopyOf(instrs[k], d)
                /\ Len(instrs[k].operands) = 1
                /\ IsMergeAccumulator(x, instrs[k].operands[1])
                /\ \A j \in DOMAIN instrs : IsPhi(instrs[j]) => j < k
                /\ \A j \in DOMAIN instrs :
                      (~IsPhi(instrs[j]) /\ instrs[j] \in OriginalOf(bprog, x)) => k < j
      /\ FilterSeq(instrs, OriginalOf(bprog, x))
           = FilterSeq(borig.blocks[x], OriginalOf(borig, x))

\* C7 witness: the pass ended on a program whose merge block held an
\* ordinary phi after the boolean phi; the block now starts with a linear
\* phi made by get_ssa, and the copy comes after the ordinary phi.
C7_Witness ==
  /\ bpc = "done"
  /\ \E x \in BBlocks : \E i \in BoolPhisOf(borig, x) :
        /\ \E j \in DOMAIN borig.blocks[x] :
              j > i /\ borig.blocks[x][j].opcode = "p_phi"
        /\ IsInserted(bprog.blocks[x][1]) /\ bprog.blocks[x][1].opcode = "p_linear_phi"
        /\ \E k \in DOMAIN bprog.blocks[x] :
              /\ IsCopyOf(bprog.blocks[x][k], borig.blocks[x][i].definitions[1])
              /\ bprog.blocks[x][k - 1].opcode = "p_phi"

\* the temps that carry the accumulator of the lowered phi whose copy reads
\* from the temps S: followed back through the linear phis and the blends
\* the pass created
RECURSIVE AccumulatorTemps(_)
AccumulatorTemps(S) ==
  LET AllInstrs == UNION {Range(bprog.blocks[x]) : x \in BBlocks}
      viaPhi == {op.id : op \in UNION {Range(ins.operands) :
                   ins \in {i \in AllInstrs : /\ i.opcode = "p_linear_phi"
                                              /\ IsInserted(i)
                                              /\ i.definitions[1].id \in S}}}
      viaOr == {a.operands[1].id :
                  a \in {i \in AllInstrs :
                           /\ i.opcode = "s_andn2_b64"
                           /\ \E o \in AllInstrs :
                                 /\ o.opcode = "s_or_b64"
                                 /\ o.definitions[1].id \in S
                                 /\ o.operands[1].id = i.definitions[1].id}}
      nxt == S \cup ((viaPhi \cup viaOr) \ {0})
  IN IF nxt = S THEN S ELSE AccumulatorTemps(nxt)

\* the accumulator temps of the phi that defined d in block x
AccumulatorOf(x, d) ==
  AccumulatorTemps({ins.operands[1].id :
                      ins \in {i \in Range(bprog.blocks[x]) : IsCopyOf(i, d)}})

\* the 64-bit mask of operand src in predecessor pred: src itself, or the
\* result of the s_cselect_b64 the pass created from it
SrcMasks(pred, src) ==
  IF src.rc = s2 THEN {src.id}
  ELSE {ins.definitions[1].id :
          ins \in {i \in Range(bprog.blocks[pred]) :
                     /\ i.opcode = "s_cselect_b64" /\ IsInserted(i)
                     /\ i.operands[3].id = src.id}}

\* nothing but created instructions, p_logical_end and the branch follows
\* position z of block pred
AtEndOf(pred, z) ==
  \A j \in DOMAIN bprog.blocks[pred] :
     j > z => \/ IsInserted(bprog.blocks[pred][j])
              \/ bprog.blocks[pred][j].opcode = "p_logical_end"
              \/ bprog.blocks[pred][j].format = "PSEUDO_BRANCH"

\* block pred ends with the blend of an accumulator value of acc with src
BlendEmitted(pred, src, acc) ==
  LET instrs == bprog.blocks[pred] IN
  \E x \in DOMAIN instrs : \E y \in DOMAIN instrs : \E z \in DOMAIN instrs :
     /\ x < y /\ y < z /\ AtEndOf(pred, z)
     /\ instrs[x].opcode = "s_andn2_b64"
     /\ instrs[x].operands[1].kind = "temp" /\ instrs[x].operands[1].id \in acc
     /\ instrs[x].operands[2] = FixedOp("exec", s2)
     /\ instrs[y].opcode = "s_and_b64"
     /\ instrs[y].operands[1].kind = "temp"
     /\ instrs[y].operands[1].id \in SrcMasks(pred, src)
     /\ instrs[y].operands[2] = FixedOp("exec", s2)
     /\ instrs[z].opcode = "s_or_b64"
     /\ instrs[z].operands = <<TempOp(instrs[x].definitions[1].id, s2),
                               TempOp(instrs[y].definitions[1].id, s2)>>
     /\ instrs[z].definitions[1].id \in acc

\* block pred ends with a plain move of src into the accumulator
MoveEmitted(pred, src, acc) ==
  LET instrs == bprog.blocks[pred] IN
  \E z \in DOMAIN instrs :
     /\ AtEndOf(pred, z)
     /\ instrs[z].opcode = "s_mov_b64" /\ IsInserted(instrs[z])
     /\ instrs[z].operands[1].kind = "temp"
     /\ instrs[z].operands[1].id \in SrcMasks(pred, src)
     /\ instrs[z].definitions[1].id \in acc

\* an accumulator value reaches the end of block pred when operand k of the
\* phi of block x is handled: going up the single linear predecessors from
\* pred there is a block that an earlier operand wrote in, or a block with
\* several linear predecessors
RECURSIVE AccumulatorReaches(_, _, _)
AccumulatorReaches(x, k, pred) ==
  IF \E j \in 1..(k - 1) : borig.logical_predecessors[x][j] = pred THEN TRUE
  ELSE IF Len(borig.linear_predecessors[pred]) = 0 THEN FALSE
  ELSE IF Len(borig.linear_predecessors[pred]) = 1
       THEN AccumulatorReaches(x, k, borig.linear_predecessors[pred][1])
  ELSE TRUE

\* the lowered phis: block, position in the block handed to the pass
LoweredPhis == {<<x, i>> : x \in BBlocks, i \in 1..3} \cap
               {xi \in BBlocks \X (1..3) : xi[2] \in BoolPhisOf(borig, xi[1])}

\* C8 as stated: for each logical predecessor of a lowered boolean phi the
\* blend cur_new = (cur_old AND_NOT EXEC) OR (src AND EXEC) is emitted at
\* the end of that predecessor.
C8_BlendForEachPredecessor ==
  bpc = "done" =>
    \A xi \in LoweredPhis :
      LET phi == borig.blocks[xi[1]][xi[2]] IN
      \A k \in DOMAIN phi.operands :
         BlendEmitted(borig.logical_predecessors[xi[1]][k], phi.operands[k],
                      AccumulatorOf(xi[1], phi.definitions[1]))

\* C8 amended: for each logical predecessor of a lowered boolean phi that an
\* accumulator value reaches, the blend is emitted at the end of that
\* predecessor; for a predecessor that no accumulator value reaches, a
\* plain s_mov_b64 cur_new = src is emitted there instead.
C8_BlendOrMove ==
  bpc = "done" =>
    \A xi \in LoweredPhis :
      LET phi == borig.blocks[xi[1]][xi[2]]
          acc == AccumulatorOf(xi[1], phi.definitions[1]) IN
      \A k \in DOMAIN phi.operands :
         LET pred == borig.logical_predecessors[xi[1]][k] IN
         IF AccumulatorReaches(xi[1], k, pred)
         THEN BlendEmitted(pred, phi.operands[k], acc)
         ELSE /\ MoveEmitted(pred, phi.operands[k], acc)
              /\ ~BlendEmitted(pred, phi.operands[k], acc)

\* C8 witness: the pass ended on a lowered phi with one predecessor that
\* got the blend and one, reached by no accumulator value, that got the
\* move.
C8_Witness ==
  /\ bpc = "done"
  /\ \E xi \in LoweredPhis :
       LET phi == borig.blocks[xi[1]][xi[2]]
           acc == AccumulatorOf(xi[1], phi.definitions[1]) IN
       /\ BlendEmitted(borig.logical_predecessors[xi[1]][2], phi.operands[2], acc)
       /\ ~AccumulatorReaches(xi[1], 1, borig.logical_predecessors[xi[1]][1])
       /\ MoveEmitted(borig.logical_predecessors[xi[1]][1], phi.operands[1], acc)


\* ---- claims about the spiller

SpillIds == 1..Len(sslots.interferences)

\* the first dword of a spill id and the dwords it occupies
SlotOf(id) ==
  IF Has(sslots.sgpr_slot, [id |-> id]) THEN slot_of(sslots.sgpr_slot, id)
  ELSE slot_of(sslots.vgpr_slot, id)

SlotRange(id) == SlotOf(id)..(SlotOf(id) + sslots.interferences[id].rc.size - 1)

SameBank(a, b) == sslots.interferences[a].rc.type = sslots.interferences[b].rc.type

\* C4: after assign_spill_slots, two different spill ids of the same bank, one
\* in the (merged) interference set of the other, have disjoint dword ranges.
\* The runs in which an assertion of the spiller failed are left out.
C4_InterferingSlotsDisjoint ==
  (spc = "done" /\ ~sprog.assert_failed) =>
    \A a \in SpillIds : \A b \in sslots.interferences[a].ids :
       (a # b /\ SameBank(a, b)) => SlotRange(a) \cap SlotRange(b) = {}

\* two spill ids of one variable, made affine at a merge block, and a third
\* that interferes with one of them only
C4_Witness ==
  /\ spc = "done" /\ ~sprog.assert_failed
  /\ \E a \in SpillIds : \E b \in sslots.interferences[a].ids :
       a # b /\ SameBank(a, b) /\ a \notin sslots.interferences[b].ids

\* C5: after assign_spill_slots, a multi-dword spill id that is stored in a
\* linear vgpr (every spilled sgpr) lies inside one linear vgpr.
C5_NoStraddle ==
  spc = "done" =>
    \A id \in SpillIds :
       (Has(sslots.sgpr_slot, [id |-> id]) /\ sslots.interferences[id].rc.size > 1) =>
          SlotOf(id) \div LanesPerVgpr
            = (SlotOf(id) + sslots.interferences[id].rc.size - 1) \div LanesPerVgpr

\* a spilled sgpr of more than one dword in a program with more than 64
\* dwords of spilled sgprs
C5_Witness ==
  /\ spc = "done"
  /\ sslots.vgpr_spill_temps > 1
  /\ \E id \in SpillIds :
       Has(sslots.sgpr_slot, [id |-> id]) /\ sslots.interferences[id].rc.size > 1

\* ---- claims about register_allocation

RaBlocks == DOMAIN rprog.blocks

RaInstrAt(b, k) == rprog.heap[rprog.blocks[b][k]]

\* the temporaries an instruction reads and the ids it defines
RaUses(instr) ==
  {temp_of(instr.operands[i]) : i \in {j \in DOMAIN instr.operands :
                                         instr.operands[j].kind = "temp"}}

RaDefs(instr) == {instr.definitions[i].id : i \in 1..instr.num_definitions} \ {0}

\* the temporaries live after instruction k of block b when out is live at
\* the end of the block; the operands of a phi are read in the predecessors
RECURSIVE RaLiveAfter(_, _, _)
RaLiveAfter(b, k, out) ==
  IF k >= Len(rprog.blocks[b]) THEN out
  ELSE With(RaLiveAfter(b, k + 1, out), LAMBDA after :
         With(RaInstrAt(b, k + 1), LAMBDA instr :
           {t \in after : t.id \notin RaDefs(instr)}
             \cup (IF is_phi(instr) THEN {} ELSE RaUses(instr))))

\* the operands the phis of block s read at the end of its predecessor b
RaEdgeUses(s, b) ==
  UNION {LET instr == RaInstrAt(s, k)
             preds == IF instr.opcode = "p_phi" THEN rprog.logical_predecessors[s]
                      ELSE rprog.linear_predecessors[s]
         IN IF ~is_phi(instr) THEN {}
            ELSE {temp_of(instr.operands[i]) :
                    i \in {j \in DOMAIN instr.operands :
                             /\ j \in DOMAIN preds /\ preds[j] = b
                             /\ instr.operands[j].kind = "temp"}}
         : k \in DOMAIN rprog.blocks[s]}

\* the liveness of the allocated program, re-derived by n rounds of the
\* backward data flow: the temporaries live at the start of every block
RECURSIVE RaLiveIn(_)
RaLiveIn(n) ==
  IF n = 0 THEN [b \in RaBlocks |-> {}]
  ELSE With(RaLiveIn(n - 1), LAMBDA in :
         [b \in RaBlocks |->
            RaLiveAfter(b, 0,
              UNION {in[rprog.linear_successors[b][i]]
                       \cup RaEdgeUses(rprog.linear_successors[b][i], b)
                     : i \in DOMAIN rprog.linear_successors[b]})])

RaLiveOut(b) ==
  With(RaLiveIn(Len(rprog.blocks) + 1), LAMBDA in :
    UNION {in[rprog.linear_successors[b][i]]
             \cup RaEdgeUses(rprog.linear_successors[b][i], b)
           : i \in DOMAIN rprog.linear_successors[b]})

\* the dwords of the register file a temporary occupies
RaRegs(t) == rctx.assignments[t.id].reg .. (rctx.assignments[t.id].reg + t.rc.size - 1)

\* C1: after register_allocation, at every point of the program no two
\* distinct temporaries that are live there have a dword of the register
\* file in common.
C1_NoSharedRegister ==
  rpc = "done" =>
    \A b \in RaBlocks :
      With(RaLiveOut(b), LAMBDA out :
        \A k \in 0..Len(rprog.blocks[b]) :
          With(RaLiveAfter(b, k, out), LAMBDA live :
            \A t1 \in live : \A t2 \in live :
              t1.id # t2.id => RaRegs(t1) \cap RaRegs(t2) = {}))

\* the definition of a v_mac_f32 took the register of the third operand,
\* which is read again later
C1_Witness ==
  /\ rpc = "done"
  /\ \E k \in DOMAIN rprog.blocks[1] :
       LET instr == RaInstrAt(1, k)
       IN /\ instr.opcode = "v_mac_f32"
          /\ instr.definitions[1].reg = instr.operands[3].reg
          /\ temp_of(instr.operands[3]) \in RaLiveAfter(1, k, {})

\* ---- claims about the phis the passes create

\* the blocks from which block b is reached over the edges of preds, b included
RECURSIVE BackReach(_, _, _)
BackReach(preds, S, n) ==
  IF n = 0 THEN S
  ELSE BackReach(preds, S \cup UNION {Range(preds[x]) : x \in S}, n - 1)

\* the blocks of code that hold a definition of the temp id
DefBlocks(code, id) ==
  {x \in DOMAIN code : \E k \in DOMAIN code[x] :
     \E d \in DOMAIN code[x][k].definitions : code[x][k].definitions[d].id = id}

\* a phi of block x has one operand per predecessor of its kind, every
\* operand that is a temporary has the class of the definition, and is
\* defined in a block from which the predecessor of its position is reached
PhiWellFormed(code, logical_predecessors, linear_predecessors, x, phi) ==
  LET preds == IF phi.opcode = "p_phi" THEN logical_predecessors
               ELSE linear_predecessors
  IN /\ Len(phi.operands) = Len(preds[x])
     /\ \A i \in DOMAIN phi.operands :
          phi.operands[i].kind = "temp" =>
            /\ phi.operands[i].rc = phi.definitions[1].rc
            /\ i \in DOMAIN preds[x]
            /\ DefBlocks(code, phi.operands[i].id)
                 \cap BackReach(preds, {preds[x][i]}, Len(preds)) # {}

\* the phis of code whose definition was allocated by the pass
CreatedPhis(code, first_new) ==
  {<<x, k>> \in UNION {{<<y, j>> : j \in DOMAIN code[y]} : y \in DOMAIN code} :
     is_phi(code[x][k]) /\ code[x][k].definitions[1].id >= first_new}

PhisWellFormed(code, logical_predecessors, linear_predecessors, first_new) ==
  \A c \in CreatedPhis(code, first_new) :
    PhiWellFormed(code, logical_predecessors, linear_predecessors, c[1], code[c[1]][c[2]])

\* the instructions of the allocated program, block by block
RaCode == [b \in DOMAIN rprog.blocks |->
             [k \in DOMAIN rprog.blocks[b] |-> rprog.heap[rprog.blocks[b][k]]]]

\* the phis read_variable_recursive created so far, removed or not, with
\* their block
RaCreatedPhis ==
  UNION {{<<b, rprog.heap[rctx.phis[b][k]]>> : k \in DOMAIN rctx.phis[b]}
           \cup {<<b, rprog.heap[rctx.incomplete_phis[b][k]]>> :
                   k \in DOMAIN rctx.incomplete_phis[b]}
         : b \in DOMAIN rprog.blocks}

\* C9: a phi created by get_ssa, by add_coupling_code or by
\* read_variable_recursive has as many operands as its block has
\* predecessors of its kind (logical for p_phi, linear for p_linear_phi),
\* its operand i is a value of predecessor i, and every operand that is a
\* temporary has the register class of the definition.
C9_CreatedPhisWellFormed ==
  /\ bpc = "done" =>
       PhisWellFormed(bprog.blocks, bprog.logical_predecessors,
                      bprog.linear_predecessors, borig.allocationID)
  /\ spc # "idle" =>
       PhisWellFormed(sprog.blocks, sprog.logical_predecessors,
                      sprog.linear_predecessors, SpillFirstFreeId)
  /\ rpc \notin {"idle", "aborted"} =>
       \A c \in RaCreatedPhis :
         LET preds == IF c[2].opcode = "p_phi" THEN rprog.logical_predecessors
                      ELSE rprog.linear_predecessors
         IN /\ Len(c[2].operands) = Len(preds[c[1]])
            /\ \A i \in DOMAIN c[2].operands :
                 c[2].operands[i].kind = "temp" =>
                   c[2].operands[i].rc = c[2].definitions[1].rc
  /\ rpc = "done" =>
       PhisWellFormed(RaCode, rprog.logical_predecessors,
                      rprog.linear_predecessors, RaFirstFreeId)

PhiNext == BoolNext \/ SpillNext \/ RaNext

SpecPhis == (BoolInit \/ SpillInit \/ RaInit) /\ [][PhiNext]_vars

\* the allocator has finished a program in which a phi it created remains,
\* with operands of two different names
C9_Witness ==
  /\ rpc = "done"
  /\ \E c \in CreatedPhis(RaCode, RaFirstFreeId) :
       LET phi == RaCode[c[1]][c[2]]
       IN /\ Len(phi.operands) = 2
          /\ phi.operands[1].kind = "temp" /\ phi.operands[2].kind = "temp"
          /\ phi.operands[1].id # phi.operands[2].id
          /\ PhiWellFormed(RaCode, rprog.logical_predecessors,
                           rprog.linear_predecessors, c[1], phi)

\* ---- more claims about nir_divergence_analysis

\* the phis of the loop header blocks
MuPhis ==
  {ins \in ShaderInstrs : ins.type = "phi" /\ shader.loopLast[ins.block] # 0}

\* the operands of a mu phi that come neither from the block before the
\* loop nor from the last block of the loop
ConditionalSrcs(ins) ==
  {i \in DOMAIN ins.srcs :
     /\ ins.srcs[i].pred # shader.loopLast[ins.block]
     /\ ins.srcs[i].pred # shader.loopPrev[ins.block]}

\* C11: at the fixed point a mu phi is divergent iff some operand is
\* divergent, or some operand other than the one from the block before the
\* loop and the one from the last block of the loop comes from a predecessor
\* nested in an if with a divergent condition.
C11_MuIffOperandOrConditional ==
  dpc = "done" =>
    \A ins \in MuPhis :
       divergent[ins.dest] <=>
         \/ \E i \in DOMAIN ins.srcs : divergent[ins.srcs[i].ssa]
         \/ \E i \in ConditionalSrcs(ins) :
               EnclosingDivergent(divergent, ins.srcs[i].pred)

\* C11 witness: a mu phi whose continue operand comes from an if with a
\* divergent condition, marked divergent at the fixed point, all of whose
\* divergent operands are computed from the phi itself.
C11_Witness ==
  /\ dpc = "done"
  /\ \E ins \in MuPhis :
        /\ divergent[ins.dest]
        /\ \A i \in DOMAIN ins.srcs :
              divergent[ins.srcs[i].ssa] =>
                \E u \in Range(ParentInstr(ins.srcs[i].ssa).srcs) : u.ssa = ins.dest
        /\ \E i \in ConditionalSrcs(ins) :
              EnclosingDivergent(divergent, ins.srcs[i].pred)

Derefs == {ins \in ShaderInstrs : ins.type = "deref"}

\* C12 as stated: at the fixed point a deref is uniform iff every use of it
\* is a texture instruction, and divergent when some use is not.
C12_DerefUniformIffAllTex ==
  dpc = "done" =>
    \A ins \in Derefs :
       ~divergent[ins.dest] <=> \A u \in UsesOf(ins.dest) : u.type = "tex"

\* C12 amended: at the fixed point a deref is divergent iff every use of it
\* is a texture instruction, and uniform when some use is not.
C12_DerefDivergentIffAllTex ==
  dpc = "done" =>
    \A ins \in Derefs :
       divergent[ins.dest] <=> \A u \in UsesOf(ins.dest) : u.type = "tex"

\* C12 witness: at the fixed point, a deref read by a texture instruction
\* only, marked divergent.
C12_Witness ==
  /\ dpc = "done"
  /\ \E ins \in Derefs :
        /\ UsesOf(ins.dest) # {}
        /\ \A u \in UsesOf(ins.dest) : u.type = "tex"
        /\ divergent[ins.dest]

\* ---- more claims about live_var_analysis

\* the exact live-out sets of the program
TrueLiveOut == LiveAtExit([b \in Blocks |-> {}])

LDefs(b, i) == Range(lprog.blocks[b][i].definitions) \cap Temps

\* the temps live between instruction i and instruction i + 1 of block b
\* (i = 0: before the first instruction), from the live-out sets out: live
\* at the exit and not defined later, or read later by an instruction that
\* is not a phi and not defined in between
LiveAfterInstr(out, b, i) ==
  LET n == Len(lprog.blocks[b]) IN
  {t \in Temps :
     \/ t \in out[b] /\ \A j \in (i + 1)..n : t \notin LDefs(b, j)
     \/ \E j \in (i + 1)..n :
          /\ ~is_phi(lprog.blocks[b][j])
          /\ t \in Range(lprog.blocks[b][j].operands)
          /\ \A k \in (i + 1)..(j - 1) : t \notin LDefs(b, k)}

RECURSIVE Dwords(_)
Dwords(S) ==
  IF S = {} THEN 0
  ELSE With(CHOOSE t \in S : TRUE, LAMBDA t : size(lprog, t) + Dwords(S \ {t}))

\* (scalar dwords, vector dwords) of a set of temps
DemandPair(S) ==
  <<Dwords({t \in S : ~is_vgpr(lprog, t)}), Dwords({t \in S : is_vgpr(lprog, t)})>>

\* the demand the statement of C13 gives instruction i of block b
DemandBefore(out, b, i) == DemandPair(LiveAfterInstr(out, b, i - 1))

\* the temps live after instruction i and the definitions of instruction i
\* that nothing reads
DemandAfter(out, b, i) == DemandPair(LiveAfterInstr(out, b, i) \cup LDefs(b, i))

\* C13 as stated: register_demand[i] is the pair (scalar dwords, vector
\* dwords) of the temps live immediately before instruction i.
C13_DemandBeforeInstr ==
  lpc = "done" =>
    With(TrueLiveOut, LAMBDA out :
      \A b \in Blocks : \A i \in DOMAIN lprog.blocks[b] :
         register_demand[b][i] = DemandBefore(out, b, i))

\* C13 amended: register_demand[i] is the pair (scalar dwords, vector dwords)
\* of the temps live immediately after instruction i together with the
\* definitions of instruction i that are not live after it.
C13_DemandAfterInstr ==
  lpc = "done" =>
    With(TrueLiveOut, LAMBDA out :
      \A b \in Blocks : \A i \in DOMAIN lprog.blocks[b] :
         register_demand[b][i] = DemandAfter(out, b, i))

\* C13 witness: the analysis ended with an instruction that is the last use
\* of one of its operands, and with an instruction whose definition is never
\* read and is counted at the instruction.
C13_Witness ==
  /\ lpc = "done"
  /\ With(TrueLiveOut, LAMBDA out :
       /\ \E b \in Blocks : \E i \in DOMAIN lprog.blocks[b] :
             /\ LiveAfterInstr(out, b, i - 1) \ LiveAfterInstr(out, b, i) # {}
             /\ register_demand[b][i] = DemandAfter(out, b, i)
             /\ register_demand[b][i] # DemandBefore(out, b, i)
       /\ \E b \in Blocks : \E i \in DOMAIN lprog.blocks[b] :
             /\ LDefs(b, i) \ LiveAfterInstr(out, b, i) # {}
             /\ register_demand[b][i] = DemandAfter(out, b, i)
             /\ register_demand[b][i] # DemandPair(LiveAfterInstr(out, b, i)))

\* C14: block.sgpr_demand and block.vgpr_demand are the maxima of the
\* demand curve of the block: no register_demand[i] of the block exceeds
\* them, and some register_demand[i] reaches each of them.
C14_BlockDemandIsMaximum ==
  lpc = "done" =>
    \A b \in Blocks :
       lprog.blocks[b] # <<>> =>
         \A c \in 1..2 :
            /\ \A i \in DOMAIN lprog.blocks[b] : register_demand[b][i][c] <= block_demand[b][c]
            /\ \E i \in DOMAIN lprog.blocks[b] : register_demand[b][i][c] = block_demand[b][c]

\* C14 witness: the analysis ended with an instruction whose definition is
\* never read and whose register_demand entry is above the demand recorded
\* for its block.
C14_Witness ==
  /\ lpc = "done"
  /\ With(TrueLiveOut, LAMBDA out :
       \E b \in Blocks : \E i \in DOMAIN lprog.blocks[b] :
          /\ LDefs(b, i) \ LiveAfterInstr(out, b, i) # {}
          /\ \E c \in 1..2 : register_demand[b][i][c] > block_demand[b][c])

\* ---- claims about the occupancy

\* the maximum of the demands of the blocks, scalar (c = 1) or vector (c = 2)
MaxBlockDemand(c) ==
  CHOOSE d \in {block_demand[b][c] : b \in Blocks} :
     \A b \in Blocks : block_demand[b][c] <= d

\* the least multiple of a that is at least x
RoundedUp(x, a) == CHOOSE r \in x..(x + a - 1) : r % a = 0

\* v and s of the statement
VectorDemand == MaxBlockDemand(2)

ScalarDemand == MaxBlockDemand(1) + 2

TotalSgprs == IF lprog.ge_vi THEN 800 ELSE 512

AddressableSgprs == IF lprog.ge_vi THEN 102 ELSE 104

WithinLimits == VectorDemand <= 256 /\ ScalarDemand <= AddressableSgprs

Least(S) == CHOOSE x \in S : \A y \in S : x <= y

\* C15 as stated: within the limits num_waves is
\* min(10, 256 / round4(v), total_s / round8(s)), a value between 1 and 10.
C15_WavesFormula ==
  lpc = "done" /\ WithinLimits =>
    /\ RoundedUp(VectorDemand, 4) # 0
    /\ waves[1] = Least({10, 256 \div RoundedUp(VectorDemand, 4),
                         TotalSgprs \div RoundedUp(ScalarDemand, 8)})
    /\ waves[1] \in 1..10

\* C15 amended: within the limits num_waves is
\* min(10, 256 / max(4, round4(v)), total_s / round8(s)), a value between 1
\* and 10.
C15_WavesFormulaFloor ==
  lpc = "done" /\ WithinLimits =>
    /\ waves[1] = Least({10, 256 \div Max(4, RoundedUp(VectorDemand, 4)),
                         TotalSgprs \div RoundedUp(ScalarDemand, 8)})
    /\ waves[1] \in 1..10

\* C15 witness: a program within the limits whose occupancy is below 10
\* because of its vector demand, and is what the amended statement says.
C15_Witness ==
  /\ lpc = "done" /\ WithinLimits
  /\ waves[1] \in 2..9
  /\ waves[1] = 256 \div Max(4, RoundedUp(VectorDemand, 4))
  /\ waves[1] < TotalSgprs \div RoundedUp(ScalarDemand, 8)
  /\ VectorDemand % 4 # 0

\* max_sgpr and max_vgpr are derived from num_waves by divisions by a
\* number that is not 0, or are the demands when num_waves is 0
LimitsDerived ==
  IF waves[1] = 0
  THEN waves[2] = ScalarDemand /\ waves[3] = VectorDemand
  ELSE /\ waves[1] >= 1
       /\ waves[2] = Least({((TotalSgprs \div waves[1]) \div 8) * 8, AddressableSgprs}) - 2
       /\ waves[3] = ((256 \div waves[1]) \div 4) * 4

\* C16 as stated: num_waves is 0 exactly when the vector demand exceeds 256
\* and at least 1 otherwise, and max_sgpr / max_vgpr are derived without a
\* division by zero.
C16_ZeroWavesIffVectorExhausted ==
  lpc = "done" =>
    /\ waves[1] = 0 <=> VectorDemand > 256
    /\ LimitsDerived

\* C16 amended: num_waves is 0 exactly when the vector demand exceeds 256 or
\* the scalar demand with VCC exceeds the largest addressable sgpr, and at
\* least 1 otherwise, and max_sgpr / max_vgpr are derived without a division
\* by zero.
C16_ZeroWavesIffExhausted ==
  lpc = "done" =>
    /\ waves[1] = 0 <=> (VectorDemand > 256 \/ ScalarDemand > AddressableSgprs)
    /\ LimitsDerived

\* C16 witness: a program whose vector demand is at most 256 and whose
\* scalar demand exceeds the addressable sgprs; num_waves is 0.
C16_Witness ==
  /\ lpc = "done"
  /\ VectorDemand <= 256 /\ VectorDemand > 0
  /\ ScalarDemand > AddressableSgprs
  /\ waves[1] = 0

\* ---------------------------------------------------------------------
\* emit_program: exports and branches
\* ---------------------------------------------------------------------

\* the positions of the exports of a program
AExports(blocks) ==
  {p \in UNION {{<<b, k>> : k \in 1..Len(blocks[b])} : b \in 1..Len(blocks)} :
     blocks[p[1]][p[2]].format = "EXP"}

IsNullExport(i) == i.format = "EXP" /\ i.dest = 9 /\ i.enabled_mask = 0

AfterExports == apc \in {"emit", "branches", "done"}

\* C17: after fix_exports exactly one export of the program is marked done,
\* it has valid_mask set and no export follows it; at most one null export
\* (dest 9, enabled_mask 0, done, valid_mask) has been inserted, only when no
\* other export is the marked one, and it stands immediately before s_endpgm.
C17_OneFinalExport ==
  AfterExports =>
    With(AExports(aprog), LAMBDA exps :
      With({p \in exps : aprog[p[1]][p[2]].done}, LAMBDA marked :
        With({p \in exps : IsNullExport(aprog[p[1]][p[2]])}, LAMBDA nulls :
          /\ Cardinality(marked) = 1
          /\ \A p \in marked :
               /\ aprog[p[1]][p[2]].valid_mask
               /\ \A q \in exps : q[1] < p[1] \/ (q[1] = p[1] /\ q[2] <= p[2])
          /\ Cardinality(nulls) <= 1
          /\ \A p \in nulls :
               /\ marked = {p}
               /\ p[2] < Len(aprog[p[1]])
               /\ aprog[p[1]][p[2] + 1].opcode = "s_endpgm")))

\* a program without exports and with one block has got its null export
C17_Witness ==
  /\ AfterExports
  /\ Len(aprog) = 1
  /\ \E k \in 1..Len(aprog[1]) - 1 :
       /\ aprog[1][k] = null_export
       /\ aprog[1][k + 1].opcode = "s_endpgm"
       /\ AExports(aprog) = {<<1, k>>}

\* the words of the blocks from block b on, appended to o without patching
RECURSIVE EmittedWords(_, _, _)
EmittedWords(blocks, b, o) ==
  IF b > Len(blocks) THEN o
  ELSE EmittedWords(blocks, b + 1,
                    emit_block([branches |-> {}, block_offset |-> <<>>], o, blocks[b], 1).out)

\* the index in out of the first word of instruction k of block b
WordIndex(blocks, b, k) ==
  Len(EmittedWords([c \in 1..b |-> IF c < b THEN blocks[c] ELSE SubSeq(blocks[b], 1, k - 1)],
                   1, <<>>))

ABranches(blocks) ==
  {p \in UNION {{<<b, k>> : k \in 1..Len(blocks[b])} : b \in 1..Len(blocks)} :
     blocks[p[1]][p[2]].format = "SOPP" /\ blocks[p[1]][p[2]].block # 0}

\* the offset a branch at p has to hold: from the word after it to the first
\* word of its target block
BranchOffset(blocks, p) ==
  WordIndex(blocks, blocks[p[1]][p[2]].block, 1) - (WordIndex(blocks, p[1], p[2]) + 1)

\* C18: after emit_program the low 16 bits of the word of every branch are
\* block_offset[target] - (index of the word + 1) modulo 2^16, block_offset
\* being the index of the first word of the target block, and the upper 16
\* bits are those the instruction was emitted with.
C18_BranchOffsets ==
  apc = "done" =>
    With(EmittedWords(aprog, 1, <<>>), LAMBDA unpatched :
      \A p \in ABranches(aprog) :
        With(WordIndex(aprog, p[1], p[2]), LAMBDA w :
          With(aprog[p[1]][p[2]].block, LAMBDA t :
            /\ actx.block_offset[t] = WordIndex(aprog, t, 1)
            /\ Field(aout[w + 1], 0, 16) = U16(actx.block_offset[t] - (w + 1))
            /\ Field(aout[w + 1], 16, 16) = Field(unpatched[w + 1], 16, 16)
            /\ Len(aout) = Len(unpatched))))

\* a program with a forward and a backward branch, across a null export and a
\* literal, has been emitted
C18_Witness ==
  /\ apc = "done"
  /\ \E p \in ABranches(aprog) : BranchOffset(aprog, p) > 0
  /\ \E p \in ABranches(aprog) : BranchOffset(aprog, p) < -2
  /\ \E p \in AExports(aprog) : IsNullExport(aprog[p[1]][p[2]])
  /\ \E b \in 1..Len(aprog) : \E k \in 1..Len(aprog[b]) : aprog[b][k] = AMovLiteral

\* ---------------------------------------------------------------------
\* register_allocation: alignment and operand registers
\* ---------------------------------------------------------------------

\* the register of a scalar temp of this class is aligned
Aligned(rc, reg) ==
  rc.type = "sgpr" =>
    /\ rc.size = 2 => reg % 2 = 0
    /\ rc.size >= 4 => reg % 4 = 0

\* the definitions of the instructions of the program, the parallelcopies
\* included
RaDefinitions ==
  UNION {{rprog.heap[uid].definitions[i] : i \in 1..Len(rprog.heap[uid].definitions)} :
           uid \in Range(Flatten(rprog.blocks))}

\* C19: after register_allocation every scalar temp of size 2 is assigned a
\* register index that is a multiple of 2 and every scalar temp of size 4 or
\* more a multiple of 4, whichever way its definition was placed.
C19_ScalarAlignment ==
  rpc = "done" =>
    /\ \A id \in DOMAIN rctx.assignments :
         Aligned(rctx.assignments[id].rc, rctx.assignments[id].reg)
    /\ \A d \in RaDefinitions : d.id # 0 => Aligned(d.rc, d.reg)

\* a program with a p_split_vector of a scalar vector into halves of size 2
\* has been allocated
C19_Witness ==
  /\ rpc = "done"
  /\ \E uid \in Range(Flatten(rprog.blocks)) :
       /\ rprog.heap[uid].opcode = "p_split_vector"
       /\ \A i \in 1..Len(rprog.heap[uid].definitions) :
            /\ rprog.heap[uid].definitions[i].rc = s2
            /\ rprog.heap[uid].definitions[i].isFixed

\* the operands of the instructions of the program that name a temporary
RaTempOperands ==
  UNION {{rprog.heap[uid].operands[i] : i \in 1..Len(rprog.heap[uid].operands)} :
           uid \in Range(Flatten(rprog.blocks))}

\* the old name of a value that a parallelcopy of the block moves is read by
\* an instruction that stands after the parallelcopy
ReadsMovedName(b) ==
  \E k \in 1..Len(rprog.blocks[b]) :
    With(rprog.heap[rprog.blocks[b][k]], LAMBDA pc :
      /\ pc.opcode = "p_parallelcopy"
      /\ \E i \in 1..Len(pc.operands) :
           /\ pc.operands[i].kind = "temp"
           /\ \E j \in (k + 1)..Len(rprog.blocks[b]) :
                \E op \in Range(rprog.heap[rprog.blocks[b][j]].operands) :
                  op.kind = "temp" /\ op.id = pc.operands[i].id)

\* C20: after register_allocation every operand that names a temporary, phi
\* and parallelcopy operands included, is fixed to the register that the
\* definition of that temporary was given, and no instruction after a
\* parallelcopy reads a value that the parallelcopy moved under its old name.
C20_OperandsAtDefinitionRegister ==
  rpc = "done" =>
    /\ \A op \in RaTempOperands :
         op.kind = "temp" =>
           /\ op.isFixed
           /\ \E d \in RaDefinitions : d.id = op.id /\ d.isFixed /\ d.reg = op.reg
    /\ \A b \in 1..Len(rprog.blocks) : ~ReadsMovedName(b)

\* a program in which a parallelcopy moved a value has been allocated, and
\* an instruction after it reads the new name
C20_Witness ==
  /\ rpc = "done"
  /\ \E uid \in Range(Flatten(rprog.blocks)) :
       /\ rprog.heap[uid].opcode = "p_parallelcopy"
       /\ \E d \in Range(rprog.heap[uid].definitions) :
            \E u \in Range(Flatten(rprog.blocks)) :
              /\ u # uid
              /\ \E op \in Range(rprog.heap[u].operands) :
                   op.kind = "temp" /\ op.id = d.id /\ op.reg = d.reg

\* ---------------------------------------------------------------------
\* the spiller: init_live_in_vars
\* ---------------------------------------------------------------------

\* the merge blocks of the program that spill_block has been run on
ProcessedMerges ==
  {b \in 1..Len(sprog.blocks) : b < sblock /\ Len(sprog.linear_predecessors[b]) = 2}

\* the variables live into block b: with a next use at its start and live at
\* the end of a predecessor of their kind
LiveInto(b) ==
  {t \in sctx.next_use_distances_start[b] :
     \E i \in 1..Len(preds_of(sprog, b, t.rc.type = "vgpr")) :
        t \in sctx.next_use_distances_end[preds_of(sprog, b, t.rc.type = "vgpr")[i]]}

SpilledAtAllPreds(b, t) ==
  \A i \in 1..Len(preds_of(sprog, b, t.rc.type = "vgpr")) :
     Has(sctx.spills_exit[preds_of(sprog, b, t.rc.type = "vgpr")[i]], t)

SpilledAtSomePred(b, t) ==
  \E i \in 1..Len(preds_of(sprog, b, t.rc.type = "vgpr")) :
     Has(sctx.spills_exit[preds_of(sprog, b, t.rc.type = "vgpr")[i]], t)

\* C21: when the register pressure adds nothing, spill_block of a merge block
\* leaves a variable live into the block in spills_entry if and only if the
\* variable was spilled at the exit of every predecessor of its kind.
C21_SpilledIffAtAllPreds ==
  [][(/\ sblock' = sblock + 1
      /\ Len(sprog.linear_predecessors[sblock]) = 2
      /\ ~sprog.pressure[sblock].partial)
       => \A t \in LiveInto(sblock) :
            Has(sctx'.spills_entry[sblock], t) <=> SpilledAtAllPreds(sblock, t)]_vars

\* a merge block has been entered with a variable spilled at both
\* predecessors, and another, spilled at one of them only, has been reloaded
\* at the end of that predecessor
C21_Witness ==
  \E b \in ProcessedMerges :
    /\ ~sprog.pressure[b].partial
    /\ \E t \in LiveInto(b) : Has(sctx.spills_entry[b], t)
    /\ \E t \in LiveInto(b) :
         /\ ~Has(sctx.spills_entry[b], t)
         /\ \E i \in 1..Len(preds_of(sprog, b, t.rc.type = "vgpr")) :
              Has(sctx.renames[preds_of(sprog, b, t.rc.type = "vgpr")[i]], t)
         /\ \E i \in 1..Len(preds_of(sprog, b, t.rc.type = "vgpr")) :
              ~Has(sctx.renames[preds_of(sprog, b, t.rc.type = "vgpr")[i]], t)

\* ---------------------------------------------------------------------
\* lower_bool_phis: the linear phis of get_ssa
\* ---------------------------------------------------------------------

\* the linear phis of the program that the program did not have before
InsertedLinearPhis ==
  {phi \in UNION {Range(bprog.blocks[b]) : b \in 1..bprog.nblocks} :
     /\ phi.opcode = "p_linear_phi"
     /\ phi \notin UNION {Range(borig.blocks[b]) : b \in 1..borig.nblocks}
     /\ phi.definitions[1].id >= FirstFreeId}

\* all operands of the phi are one temporary, or the definition of the phi
TrivialPhi(phi) ==
  /\ \A i \in 1..Len(phi.operands) : phi.operands[i].kind = "temp"
  /\ Cardinality({phi.operands[i].id : i \in 1..Len(phi.operands)}
                   \ {phi.definitions[1].id}) <= 1

\* C22: after lower_bool_phis no linear phi that get_ssa inserted is trivial.
C22_NoTrivialInsertedPhi ==
  bpc = "done" => \A phi \in InsertedLinearPhis : ~TrivialPhi(phi)

\* a program for which get_ssa inserted a linear phi has been lowered
C22_Witness ==
  bpc = "done" /\ InsertedLinearPhis # {}

\* ---- C23: filled and sealed in register_allocation ----

\* a step of the main loop that ran to its end
RaBlockStep == rpc = "blocks" /\ rblock' = rblock + 1 /\ rblock \in RaBlocks

\* the blocks that are sealed in this step
NewlySealed == {b \in RaBlocks : ~rctx.sealed[b] /\ rctx'.sealed[b]}

\* the number of phis read_variable_recursive made for a block while it was
\* not sealed, completed or not
IncompleteCount(c, b) == Len(c.incomplete_phis[b])

\* the variable an incomplete phi was made for
PhiOrigName(uid) == rctx'.orig_names[rprog'.heap[uid].definitions[1].id]

\* after the sealing step operand i of a phi that was incomplete is the name
\* the predecessor i has for the variable
CompletedOperands(b, uid) ==
  LET phi == rprog'.heap[uid]
      val == PhiOrigName(uid)
      preds == IF val.rc.type = "vgpr" THEN rprog.logical_predecessors[b]
               ELSE rprog.linear_predecessors[b]
  IN \A i \in DOMAIN phi.operands :
       /\ val.id \in DOMAIN rctx'.renames[preds[i]]
       /\ phi.operands[i].id = rctx'.renames[preds[i]][val.id].id

\* all operands are one name or the definition
RaTrivial(phi) ==
  Cardinality({phi.operands[i].id : i \in DOMAIN phi.operands}
                \ {phi.definitions[1].id}) <= 1

\* C23: the filled flag of a block is set exactly once, in the step that
\* processed its body; a block is sealed only in a step after which all its
\* linear predecessors are filled; at that step every incomplete phi of the
\* block has its operands replaced by the names read in the predecessors
\* and was tested for triviality; no incomplete phi is created for a block
\* that is sealed.
C23_FilledSealedProtocol ==
  [][RaBlockStep =>
       /\ \A b \in RaBlocks :
            /\ rctx'.filled[b] = (rctx.filled[b] \/ b = rblock)
            /\ ~rctx.filled[rblock]
            /\ rctx.sealed[b] => rctx'.sealed[b]
            /\ rctx.sealed[b] => rctx'.incomplete_phis[b] = rctx.incomplete_phis[b]
       /\ \A b \in NewlySealed :
            /\ \A i \in DOMAIN rprog.linear_predecessors[b] :
                 rctx'.filled[rprog.linear_predecessors[b][i]]
            /\ rctx'.incomplete_phis[b] = <<>>
            /\ \A k \in DOMAIN rctx'.phis[b] :
                 With(rctx'.phis[b][k], LAMBDA uid :
                   rprog'.heap[uid].num_definitions # 0 =>
                     /\ CompletedOperands(b, uid)
                     /\ ~RaTrivial(rprog'.heap[uid]))]_vars

\* the blocks with a linear predecessor that comes later
RaLoopHeaders ==
  {b \in RaBlocks : \E i \in DOMAIN rprog.linear_predecessors[b] :
                      rprog.linear_predecessors[b][i] >= b}

\* a loop header was sealed when its latch was filled; a phi made for it
\* while it was not sealed was completed with two different names and kept,
\* another was found trivial and removed
C23_Witness ==
  /\ rpc = "blocks"
  /\ \E b \in RaLoopHeaders :
       /\ rctx.sealed[b] /\ rctx.incomplete_phis[b] = <<>>
       /\ \A i \in DOMAIN rprog.linear_predecessors[b] :
            rctx.filled[rprog.linear_predecessors[b][i]]
       /\ \E k \in DOMAIN rctx.phis[b] :
            /\ rprog.heap[rctx.phis[b][k]].num_definitions # 0
            /\ rprog.heap[rctx.phis[b][k]].operands[1].id
                 # rprog.heap[rctx.phis[b][k]].operands[2].id

\* ---- C24: no trivial phi is left by register_allocation ----

\* the phis read_variable_recursive made that merge_phis kept
RaKeptPhis ==
  {c \in CreatedPhis(RaCode, RaFirstFreeId) : RaCode[c[1]][c[2]].num_definitions # 0}

\* the definitions of the phis that try_remove_trivial_phi removed
RaRemovedDefs ==
  {rprog.heap[rctx.phis[b][k]].definitions[1].id :
     <<b, k>> \in {<<x, j>> \in UNION {{<<y, i>> : i \in DOMAIN rctx.phis[y]} : y \in RaBlocks} :
                     rprog.heap[rctx.phis[x][j]].num_definitions = 0}}

\* C24: after register_allocation every phi that read_variable_recursive
\* created and that was merged into its block has at least two distinct
\* operand temporaries that differ from its own definition; no kept phi
\* names a removed phi, and no entry of renames does.
C24_NoTrivialKeptPhi ==
  rpc = "done" =>
    /\ \A c \in RaKeptPhis :
         /\ ~RaTrivial(RaCode[c[1]][c[2]])
         /\ \A op \in Range(RaCode[c[1]][c[2]].operands) : op.id \notin RaRemovedDefs
    /\ \A b \in RaBlocks : \A id \in DOMAIN rctx.renames[b] :
         rctx.renames[b][id].id \notin RaRemovedDefs

\* nested loops were allocated: the phis of the headers for a variable that
\* is moved inside the inner loop were kept, and others were removed
C24_Witness ==
  /\ rpc = "done"
  /\ RaKeptPhis # {}
  /\ RaRemovedDefs # {}

\* ---- C25: the window of the search with moves ----

\* the registers of a variable before the call
GrRegsOf(id) == gassign[id].reg .. (gassign[id].reg + gassign[id].rc.size - 1)

\* the window the call took
GrWindow == gres.reg .. (gres.reg + gargs.size - 1)

\* C25: every variable that has a dword inside the window _get_reg accepted
\* lies entirely inside the window, and every variable that is moved out of
\* the window gets exactly one parallelcopy pair.
C25_NoStraddledEdge ==
  (gpc = "done" /\ gres.found) =>
    /\ \A id \in DOMAIN gassign :
         GrRegsOf(id) \cap GrWindow # {} => GrRegsOf(id) \subseteq GrWindow
    /\ \A id \in DOMAIN gassign :
         GrRegsOf(id) \cap GrWindow # {} =>
           Cardinality({i \in DOMAIN gres.pc : gres.pc[i].id = id}) = 1

\* a window was taken from which a variable was moved
C25_Witness == gpc = "done" /\ gres.found /\ gres.pc # <<>>

\* ---- C26: the linear vgpr of a spill and of its reload ----

\* the step of assign_spill_slots
AssignStep == spc = "run" /\ spc' = "done"

\* the linear paths of the program that end at block b
RECURSIVE PathsTo(_, _)
PathsTo(preds, b) ==
  IF preds[b] = <<>> THEN {<<b>>}
  ELSE UNION {{q \o <<b>> : q \in PathsTo(preds, preds[b][i])} : i \in DOMAIN preds[b]}

SpillPaths ==
  UNION {PathsTo(sprog.linear_predecessors, b) :
           b \in {c \in DOMAIN sprog.blocks : num_linear_successors(sprog, c) = 0}}

is_spill_op(instr) == instr.opcode \in {"p_spill", "p_reload"}

\* the spill id of the k-th instruction of a block of the rewritten program:
\* that of the p_spill or p_reload it was made from, -1 for the others
SpillIdAt(b, k) ==
  IF ~is_spill_op(sprog'.blocks[b][k]) THEN -1
  ELSE With(SelectSeq(sprog.blocks[b], is_spill_op)
              [Cardinality({j \in 1..k : is_spill_op(sprog'.blocks[b][j])})], LAMBDA old :
         IF old.opcode = "p_spill" THEN old.operands[2].val ELSE old.operands[1].val)

\* the rewritten instructions along a path, with their spill ids and blocks
RECURSIVE AlongPath(_)
AlongPath(path) ==
  IF path = <<>> THEN <<>>
  ELSE [k \in DOMAIN sprog'.blocks[path[1]] |->
          [instr |-> sprog'.blocks[path[1]][k], id |-> SpillIdAt(path[1], k)]]
         \o AlongPath(Tail(path))

\* the blocks every linear path goes through
SpillTopLevel == {b \in DOMAIN sprog.blocks : \A path \in SpillPaths : b \in Range(path)}

\* on a path, a reload reads the linear vgpr and the lane the spill of its
\* id wrote, the vgpr is started before the spill and not ended in between
PathKeepsStorage(seq) ==
  \A i \in DOMAIN seq : \A j \in DOMAIN seq :
    (/\ i < j
     /\ seq[i].instr.opcode = "p_spill" /\ seq[j].instr.opcode = "p_reload"
     /\ seq[i].id = seq[j].id
     /\ Len(seq[i].instr.operands) = 3 /\ Len(seq[j].instr.operands) = 2)
    => /\ seq[j].instr.operands[1].id = seq[i].instr.operands[1].id
       /\ seq[j].instr.operands[2].val = seq[i].instr.operands[2].val
       /\ \E h \in 1..(i - 1) :
            /\ seq[h].instr.opcode = "p_start_linear_vgpr"
            /\ seq[h].instr.definitions[1].id = seq[i].instr.operands[1].id
       /\ \A h \in (i + 1)..(j - 1) :
            ~(/\ seq[h].instr.opcode = "p_end_linear_vgpr"
              /\ seq[h].instr.operands[1].id = seq[i].instr.operands[1].id)

\* C26: in the output of assign_spill_slots, along every linear path a
\* rewritten p_reload reads the linear vgpr and the lane that the p_spill of
\* the same spill id wrote; the p_start_linear_vgpr of that vgpr precedes
\* both and is in a top level block, and no p_end_linear_vgpr of it lies
\* between the spill and the reload.
C26_ReloadReadsSpilledLane ==
  [][AssignStep =>
       /\ \A path \in SpillPaths : PathKeepsStorage(AlongPath(path))
       /\ \A b \in DOMAIN sprog'.blocks : \A k \in DOMAIN sprog'.blocks[b] :
            sprog'.blocks[b][k].opcode = "p_start_linear_vgpr" => b \in SpillTopLevel]_vars

\* a program was rewritten in which a block ends a linear vgpr and a later
\* instruction of that block reads a lane of a linear vgpr
C26_Witness ==
  /\ spc = "done"
  /\ \E b \in DOMAIN sprog.blocks : \E h \in DOMAIN sprog.blocks[b] :
       /\ sprog.blocks[b][h].opcode = "p_end_linear_vgpr"
       /\ \E k \in DOMAIN sprog.blocks[b] :
            /\ k > h
            /\ sprog.blocks[b][k].opcode = "p_reload"
            /\ Len(sprog.blocks[b][k].operands) = 2

\* ---- C27: the second step of init_live_in_vars for a branch block ----

\* the variables of a bank that are spilled at the exit of the predecessor,
\* live at the start of the block and not kept by the first step
InheritRemaining(type) ==
  {pair \in sctx.spills_exit[1] \ inherit_far(sctx, sprog, sblock) :
     pair[1].rc.type = type /\ Has(sctx.next_use_distances_start[sblock], pair[1])}

\* the demand of the bank without what the first step keeps spilled is above
\* the target of the bank
InheritAboveTarget(type) ==
  IF type = "sgpr"
  THEN sprog.sgpr_demand[sblock] - spilled_regs(inherit_far(sctx, sprog, sblock), "sgpr")
         > sctx.target_sgpr
  ELSE sprog.vgpr_demand[sblock] - spilled_regs(inherit_far(sctx, sprog, sblock), "vgpr")
         > sctx.target_vgpr

\* C27: in a block with one predecessor, the remaining live scalars spilled
\* at the exit of the predecessor stay spilled exactly when sgpr_demand minus
\* the spilled scalars exceeds target_sgpr, and the remaining live vectors
\* exactly when vgpr_demand minus the spilled vectors exceeds target_vgpr.
C27_PerBankTarget ==
  spc = "inherited" =>
    \A type \in {"sgpr", "vgpr"} : \A pair \in InheritRemaining(type) :
       pair \in sctx.spills_entry[sblock] <=> InheritAboveTarget(type)

\* a vector and a scalar were left over by the first step, and the demand
\* for scalars, not that for vectors, is above its target
C27_Witness ==
  /\ spc = "inherited"
  /\ InheritRemaining("sgpr") # {} /\ InheritRemaining("vgpr") # {}
  /\ InheritAboveTarget("sgpr") /\ ~InheritAboveTarget("vgpr")
  /\ sctx.target_sgpr # sctx.target_vgpr

\* ---- claims about the affinities of the spiller

\* C28: after assign_spill_slots has merged the interference sets of every
\* affinity pair, no spill id is a member of its own interference set (the
\* assertion of 1141-1143 holds).
C28_NoSelfInterference ==
  spc = "done" => \A id \in SpillIds : id \notin sslots.interferences[id].ids

\* the spill ids of two phis of one merge block (their definitions are live
\* at the end of no block) that interfere with each other
\* and are both affine to the spill id of one operand; after the merge the
\* second is in its own interference set
C28_Witness ==
  /\ spc = "done"
  /\ \E b \in DOMAIN sctx.spills_entry :
       \E e1 \in sctx.spills_entry[b] : \E e2 \in sctx.spills_entry[b] :
         /\ e1[2] # e2[2]
         /\ \A q \in DOMAIN sctx.next_use_distances_end :
              {e1[1], e2[1]} \cap sctx.next_use_distances_end[q] = {}
         /\ e2[2] \in sctx.interferences[e1[2]].ids
         /\ \E o \in SpillIds \ {e1[2], e2[2]} :
              /\ \E k \in DOMAIN sctx.affinities : sctx.affinities[k] = <<e1[2], o>>
              /\ \E k \in DOMAIN sctx.affinities : sctx.affinities[k] = <<e2[2], o>>
         /\ e2[2] \in sslots.interferences[e2[2]].ids


\* ---- claims about the termination of get_ssa

\* the linear phis of block b
NumLinearPhis(p, b) ==
  Cardinality({k \in 1..Len(p.blocks[b]) : p.blocks[b][k].opcode = "p_linear_phi"})

\* the boolean phis of block b, each lowered with an ssa_state of its own
NumLowered(p, b) ==
  Cardinality({k \in 1..Len(p.blocks[b]) :
                 /\ p.blocks[b][k].opcode = "p_phi"
                 /\ p.blocks[b][k].definitions[1].rc = s2})

\* the blocks that a linear predecessor of a later or the same index reaches:
\* the headers of the loops
BoolLoopHeaders(p) ==
  {b \in 1..p.nblocks :
     \E i \in 1..Len(p.linear_predecessors[b]) : p.linear_predecessors[b][i] >= b}

\* C29: get_ssa terminates, also when called from inside a loop: lowering the
\* phis of one block gives every block at most one new p_linear_phi per
\* lowered phi, the definitions of the new phis get fresh ids, and
\* lower_bool_phis reaches its end.
C29_GetSsaTerminates ==
  /\ [][BoolLowerBlock =>
          /\ \A b \in 1..bprog.nblocks :
               NumLinearPhis(bprog', b) - NumLinearPhis(bprog, b)
                 <= NumLowered(bprog, bblock)
          /\ bprog'.allocationID >= bprog.allocationID
          /\ bprog'.nblocks = bprog.nblocks]_vars
  /\ <>(bpc = "done")

\* a loop whose header got a p_linear_phi from a get_ssa called for a block
\* inside the loop
C29_Witness ==
  /\ bpc = "done"
  /\ \E b \in BoolLoopHeaders(borig) :
       /\ NumLinearPhis(bprog, b) > NumLinearPhis(borig, b)
       /\ \E c \in 1..borig.nblocks : c > b /\ NumLowered(borig, c) > 0


\* ---- claims about the termination of the worklist iterations

\* C30: the worklist loop of compute_global_next_uses terminates on every
\* program with loops: the worklist gets empty and the function returns.
C30_NextUsesTerminate == <>(npc = "done")

\* a block of a loop is taken from the worklist again after its phi operand,
\* which is also live through the block, changed the pair of a predecessor
C30_Witness ==
  /\ npc = "run"
  /\ nsteps > Cardinality(DOMAIN nprog.blocks)
  /\ \E b \in nworklist : nprog.loop_nest_depth[b] > 0
  /\ \E b \in DOMAIN nprog.blocks : \E e \in nstart[b] :
        /\ nprog.loop_nest_depth[b] > 0
        /\ \E k \in 1..Len(nprog.blocks[b]) :
             /\ is_phi(nprog.blocks[b][k])
             /\ \E i \in 1..Len(nprog.blocks[b][k].operands) :
                  nprog.blocks[b][k].operands[i].id = e[1].id

====
